---- MODULE Spec2Model ----
(***************************************************************************)
(* Model of the document pipeline of the investment evaluation backend:    *)
(* the document record and its background processing runs                  *)
(* (api/v1/endpoints/documents.py), the extraction coordinator             *)
(* (services/document_processor.py) and the scoring engine                 *)
(* (services/scoring_engine.py).                                           *)
(*                                                                         *)
(* Conventions.  None is 0 for the columns that hold a result or a         *)
(* timestamp and "None" for processing_error.  A result produced by run r  *)
(* is the number r, so that the record tells which run wrote a column.     *)
(***************************************************************************)
EXTENDS Integers, Sequences, FiniteSets, TLC

VARIABLES
    doc,            \* the Document row (documents.py:160-171), meaningful once uploaded
    uploaded,       \* TRUE once upload_document has committed the row
    file_exists,    \* the stored file is on disk (Path(...).exists())
    runs,           \* the process_document_background tasks, by number
    nruns,          \* how many tasks have been added with background_tasks.add_task
    now,            \* datetime.utcnow(), as a logical clock
    response,       \* status code of the last HTTP response of upload / reprocess
    overlapped,     \* history: a task was added while another one had not finished
    call            \* the calculate_investment_score call under study (see SpecScore)

----------------------------------------------------------------------------
(* Bounds of the model *)

\* number of background tasks (one upload and MaxRuns - 1 reprocess requests)
MaxRuns == 2

\* number of funding metrics, of founders and of risk factors in an analysis
MaxFunding == 2
MaxFounders == 2
MaxRisks == 2

\* number of the phrases the product score looks for that a text holds
MaxPhrases == 2

----------------------------------------------------------------------------
(* Values *)

None == 0
NoError == "None"

Runs == 1..MaxRuns

\* MIME types: the seven registered ones and one that is not
PDF == "application/pdf"
PPT == "application/vnd.ms-powerpoint"
PPTX == "application/vnd.openxmlformats-officedocument.presentationml.presentation"
XLS == "application/vnd.ms-excel"
XLSX == "application/vnd.openxmlformats-officedocument.spreadsheetml.sheet"
DOC == "application/msword"
DOCX == "application/vnd.openxmlformats-officedocument.wordprocessingml.document"
TXT == "text/plain"

MimeTypes == {PDF, PPT, PPTX, XLS, XLSX, DOC, DOCX, TXT}

\* settings.ALLOWED_FILE_TYPES
ALLOWED_FILE_TYPES == {PDF, PPT, PPTX, XLS, XLSX, DOC, DOCX}

\* DocumentProcessor.supported_formats: MIME type -> format extractor
supported_formats ==
    [m \in {PDF, PPT, PPTX, XLS, XLSX, DOC, DOCX} |->
        CASE m = PDF -> "_process_pdf"
          [] m = PPT -> "_process_ppt"
          [] m = PPTX -> "_process_pptx"
          [] m \in {XLS, XLSX} -> "_process_excel"
          [] OTHER -> "_process_word"]

\* what the parser library does with the file: it parses it or it raises
ParserOutcomes == {"parsed", "parser_error"}

\* the statuses of a stage call: it returns or it raises
StageOutcomes == {"returns", "raises"}

----------------------------------------------------------------------------
(* Extraction coordinator: DocumentProcessor (document_processor.py) *)

\* the four format extractors: each returns its three-part result or raises
\* DocumentProcessingError with its own prefix; _process_ppt is _process_pptx
FormatExtractor(processor, parser) ==
    LET prefix == CASE processor = "_process_pdf" -> "PDF processing failed"
                    [] processor \in {"_process_ppt", "_process_pptx"} -> "PowerPoint processing failed"
                    [] processor = "_process_excel" -> "Excel processing failed"
                    [] OTHER -> "Word processing failed"
    IN  IF parser = "parser_error"
        THEN [raised |-> TRUE, type |-> "DocumentProcessingError", error |-> prefix,
              keys |-> {}]
        ELSE [raised |-> FALSE, type |-> "None", error |-> NoError,
              keys |-> {"extracted_content", "document_metadata", "quality_metrics"}]

\* a mutant of process_document: an unregistered MIME type falls through to an
\* empty result instead of raising
process_document_fallthrough(exists, file_type, parser) ==
    IF ~exists
    THEN [raised |-> TRUE, type |-> "DocumentProcessingError",
          error |-> "Processing failed: File not found", keys |-> {}]
    ELSE IF file_type \notin DOMAIN supported_formats
    THEN [raised |-> FALSE, type |-> "None", error |-> NoError,
          keys |-> {"processing_metadata"}]
    ELSE LET result == FormatExtractor(supported_formats[file_type], parser)
         IN  IF result.raised
             THEN [result EXCEPT !.error = "Processing failed: " \o result.error]
             ELSE [result EXCEPT !.keys = result.keys \cup {"processing_metadata"}]

\* DocumentProcessor.process_document: what the call does for a file that exists
\* or not, a declared MIME type and a parser outcome.  Every exception of the body
\* is re-raised as DocumentProcessingError("Processing failed: " + str(e)).
process_document(exists, file_type, parser) ==
    IF ~exists
    THEN [raised |-> TRUE, type |-> "DocumentProcessingError",
          error |-> "Processing failed: File not found", keys |-> {}]
    ELSE IF file_type \notin DOMAIN supported_formats
    THEN [raised |-> TRUE, type |-> "DocumentProcessingError",
          error |-> "Processing failed: Unsupported file type", keys |-> {}]
    ELSE LET result == FormatExtractor(supported_formats[file_type], parser)
         IN  IF result.raised
             THEN [result EXCEPT !.error = "Processing failed: " \o result.error]
             ELSE [result EXCEPT !.keys = result.keys \cup {"processing_metadata"}]

----------------------------------------------------------------------------
(* The document record and its background tasks (documents.py) *)

\* the columns a completed run writes
ResultColumns ==
    {"extracted_content", "structured_data", "entities", "financial_data",
     "confidence_score", "text_quality", "data_completeness"}

\* Document(...) as upload_document creates it: every nullable column is NULL
NewDocument(file_type) ==
    [file_type |-> file_type,
     processing_status |-> "pending",
     processing_started_at |-> None,
     processing_completed_at |-> None,
     processing_error |-> NoError,
     extracted_content |-> None,
     structured_data |-> None,
     entities |-> None,
     financial_data |-> None,
     confidence_score |-> None,
     text_quality |-> None,
     data_completeness |-> None]

\* a task that background_tasks.add_task has not created yet, and one it has
NoTask ==
    [pc |-> "none", file_type |-> "None", e |-> NoError, processing_result |-> None,
     nlp_result |-> None, score_result |-> None, trace |-> <<>>, escaped |-> FALSE]

NewTask(file_type) == [NoTask EXCEPT !.pc = "queued", !.file_type = file_type]

InFlight(r) == runs[r].pc \notin {"none", "done"}

\* the state of the scoring call while the pipeline is under study
NoCall == [stage |-> "idle"]

vars == <<doc, uploaded, file_exists, runs, nruns, now, response, overlapped, call>>

Init ==
    /\ doc = NewDocument("None")
    /\ uploaded = FALSE
    /\ file_exists = FALSE
    /\ runs = [r \in Runs |-> NoTask]
    /\ nruns = 0
    /\ now = 1
    /\ response = 0
    /\ overlapped = FALSE
    /\ call = NoCall

\* POST /upload (documents.py:95-206): the type check, the row, the task
upload_document(file_type) ==
    /\ ~uploaded
    /\ IF file_type \notin ALLOWED_FILE_TYPES
       THEN /\ response' = 400
            /\ UNCHANGED <<doc, uploaded, file_exists, runs, nruns, now, overlapped, call>>
       ELSE /\ doc' = NewDocument(file_type)
            /\ uploaded' = TRUE
            /\ file_exists' = TRUE
            /\ runs' = [runs EXCEPT ![1] = NewTask(file_type)]
            /\ nruns' = 1
            /\ response' = 200
            /\ UNCHANGED <<now, overlapped, call>>

\* the .values(...) of the reset in reprocess_document (documents.py:443-457)
ResetValues(d) ==
    [d EXCEPT !.processing_status = "pending",
              !.processing_started_at = None,
              !.processing_completed_at = None,
              !.processing_error = NoError,
              !.extracted_content = None,
              !.structured_data = None,
              !.entities = None,
              !.financial_data = None]

\* a mutant of reprocess_document: a request for a document whose run has not
\* finished is rejected with 409
reprocess_document_guarded ==
    /\ nruns < MaxRuns
    /\ IF ~uploaded
       THEN /\ response' = 404
            /\ UNCHANGED <<doc, uploaded, file_exists, runs, nruns, now, overlapped, call>>
       ELSE IF ~file_exists
       THEN /\ response' = 400
            /\ UNCHANGED <<doc, uploaded, file_exists, runs, nruns, now, overlapped, call>>
       ELSE IF doc.processing_status \in {"pending", "processing"}
       THEN /\ response' = 409
            /\ UNCHANGED <<doc, uploaded, file_exists, runs, nruns, now, overlapped, call>>
       ELSE /\ doc' = ResetValues(doc)
            /\ runs' = [runs EXCEPT ![nruns + 1] = NewTask(doc.file_type)]
            /\ nruns' = nruns + 1
            /\ overlapped' = (overlapped \/ \E r \in Runs : InFlight(r))
            /\ response' = 200
            /\ UNCHANGED <<uploaded, file_exists, now, call>>

\* POST /{document_id}/reprocess (documents.py:413-469)
reprocess_document ==
    /\ nruns < MaxRuns
    /\ IF ~uploaded
       THEN /\ response' = 404
            /\ UNCHANGED <<doc, uploaded, file_exists, runs, nruns, now, overlapped, call>>
       ELSE IF ~file_exists
       THEN /\ response' = 400
            /\ UNCHANGED <<doc, uploaded, file_exists, runs, nruns, now, overlapped, call>>
       ELSE /\ doc' = ResetValues(doc)
            /\ runs' = [runs EXCEPT ![nruns + 1] = NewTask(doc.file_type)]
            /\ nruns' = nruns + 1
            /\ overlapped' = (overlapped \/ \E r \in Runs : InFlight(r))
            /\ response' = 200
            /\ UNCHANGED <<uploaded, file_exists, now, call>>

\* the stored file disappears from the upload directory (the case that
\* Path(file_path).exists() guards against)
file_removed ==
    /\ uploaded
    /\ file_exists
    /\ file_exists' = FALSE
    /\ UNCHANGED <<doc, uploaded, runs, nruns, now, response, overlapped, call>>

----------------------------------------------------------------------------
(* process_document_background (documents.py:30-92), one action per await *)

\* the three stages of a run, in the order of the calls (documents.py:50, 56, 59)
StageOrder == <<"extraction", "analysis", "scoring">>

\* a mutant of ProcessingValues: the first update stamps the start time and
\* forgets the status
ProcessingValues_no_status(d, t) ==
    [d EXCEPT !.processing_started_at = t]

\* .values(...) of the first update (documents.py:39-47)
ProcessingValues(d, t) ==
    [d EXCEPT !.processing_status = "processing",
              !.processing_started_at = t]

\* .values(...) of the result update (documents.py:64-79), for the results of run r
CompletedValues(d, t, r) ==
    [d EXCEPT !.processing_status = "completed",
              !.processing_completed_at = t,
              !.extracted_content = runs[r].processing_result,
              !.structured_data = runs[r].nlp_result,
              !.entities = runs[r].nlp_result,
              !.financial_data = runs[r].nlp_result,
              !.confidence_score = runs[r].nlp_result,
              !.text_quality = runs[r].processing_result,
              !.data_completeness = runs[r].score_result]

\* a mutant of FailedValues: the handler stores a fixed text, not str(e)
FailedValues_generic(d, t, e) ==
    [d EXCEPT !.processing_status = "failed",
              !.processing_error = "Processing failed",
              !.processing_completed_at = t]

\* .values(...) of the update of the except branch (documents.py:81-92)
FailedValues(d, t, e) ==
    [d EXCEPT !.processing_status = "failed",
              !.processing_error = e,
              !.processing_completed_at = t]

\* a mutant of Raise: the run notes the error and goes on with the next stage
Raise_and_continue(task, e, next) == [task EXCEPT !.pc = next, !.e = e]

\* an exception e leaves the try block for the except branch; next is where the
\* run would have gone had the call returned
Raise(task, e, next) == [task EXCEPT !.pc = "failing", !.e = e]

\* documents.py:38-47: status 'processing' and the start timestamp
bg_start(r) ==
    /\ runs[r].pc = "queued"
    /\ doc' = ProcessingValues(doc, now)
    /\ now' = now + 1
    /\ runs' = [runs EXCEPT ![r].pc = "processing"]
    /\ UNCHANGED <<uploaded, file_exists, nruns, response, overlapped, call>>

\* documents.py:49-52: await document_processor.process_document(...)
bg_extract(r) ==
    /\ runs[r].pc = "processing"
    /\ \E parser \in ParserOutcomes :
         LET result == process_document(file_exists, runs[r].file_type, parser)
             called == [runs[r] EXCEPT !.trace = Append(@, "extraction")]
         IN  runs' = [runs EXCEPT ![r] =
                        IF result.raised
                        THEN Raise(called, result.error, "extracted")
                        ELSE [called EXCEPT !.pc = "extracted",
                                            !.processing_result = r]]
    /\ UNCHANGED <<doc, uploaded, file_exists, nruns, now, response, overlapped, call>>

\* documents.py:54-56: await nlp_processor.analyze_text(extracted_text)
bg_analyze(r) ==
    /\ runs[r].pc = "extracted"
    /\ \E outcome \in StageOutcomes :
         LET called == [runs[r] EXCEPT !.trace = Append(@, "analysis")]
         IN  runs' = [runs EXCEPT ![r] =
                        IF outcome = "raises"
                        THEN Raise(called, "Text analysis failed", "analyzed")
                        ELSE [called EXCEPT !.pc = "analyzed", !.nlp_result = r]]
    /\ UNCHANGED <<doc, uploaded, file_exists, nruns, now, response, overlapped, call>>

\* documents.py:58-61: await scoring_engine.calculate_investment_score(...)
bg_score(r) ==
    /\ runs[r].pc = "analyzed"
    /\ \E outcome \in StageOutcomes :
         LET called == [runs[r] EXCEPT !.trace = Append(@, "scoring")]
         IN  runs' = [runs EXCEPT ![r] =
                        IF outcome = "raises"
                        THEN Raise(called, "Score calculation failed", "scored")
                        ELSE [called EXCEPT !.pc = "scored", !.score_result = r]]
    /\ UNCHANGED <<doc, uploaded, file_exists, nruns, now, response, overlapped, call>>

\* documents.py:63-79: the results and status 'completed'
bg_complete(r) ==
    /\ runs[r].pc = "scored"
    /\ doc' = CompletedValues(doc, now, r)
    /\ now' = now + 1
    /\ runs' = [runs EXCEPT ![r].pc = "done"]
    /\ UNCHANGED <<uploaded, file_exists, nruns, response, overlapped, call>>

\* documents.py:81-92: the except branch, status 'failed' and str(e)
bg_fail(r) ==
    /\ runs[r].pc = "failing"
    /\ doc' = FailedValues(doc, now, runs[r].e)
    /\ now' = now + 1
    /\ runs' = [runs EXCEPT ![r].pc = "done"]
    /\ UNCHANGED <<uploaded, file_exists, nruns, response, overlapped, call>>

process_document_background(r) ==
    \/ bg_start(r)
    \/ bg_extract(r)
    \/ bg_analyze(r)
    \/ bg_score(r)
    \/ bg_complete(r)
    \/ bg_fail(r)

Next ==
    \/ \E file_type \in MimeTypes : upload_document(file_type)
    \/ reprocess_document
    \/ file_removed
    \/ \E r \in Runs : process_document_background(r)

Spec == Init /\ [][Next]_vars

----------------------------------------------------------------------------
(* The same tasks when an update of the record can itself raise: each of the
   three awaits on db.execute / db.commit either completes or raises.  An
   exception of the first or of the result update is caught by the except
   branch (documents.py:81); one of the update of the except branch leaves the
   task (nothing catches it). *)

db_error_start(r) ==
    /\ runs[r].pc = "queued"
    /\ runs' = [runs EXCEPT ![r] = Raise(runs[r], "database error", "processing")]
    /\ UNCHANGED <<doc, uploaded, file_exists, nruns, now, response, overlapped, call>>

db_error_complete(r) ==
    /\ runs[r].pc = "scored"
    /\ runs' = [runs EXCEPT ![r] = Raise(runs[r], "database error", "done")]
    /\ UNCHANGED <<doc, uploaded, file_exists, nruns, now, response, overlapped, call>>

db_error_fail(r) ==
    /\ runs[r].pc = "failing"
    /\ runs' = [runs EXCEPT ![r].pc = "done", ![r].escaped = TRUE]
    /\ UNCHANGED <<doc, uploaded, file_exists, nruns, now, response, overlapped, call>>

NextDbError ==
    \/ Next
    \/ \E r \in Runs : db_error_start(r)
    \/ \E r \in Runs : db_error_complete(r)
    \/ \E r \in Runs : db_error_fail(r)

\* a task that has started runs to its end: BackgroundTasks awaits it
Fairness == \A r \in Runs : WF_vars(process_document_background(r) \/ db_error_fail(r))

SpecDbError == Init /\ [][NextDbError]_vars /\ Fairness

----------------------------------------------------------------------------
(* The scoring engine (scoring_engine.py).  A Python float is kept as the  *)
(* exact fraction <<numerator, denominator>> in lowest terms, denominator  *)
(* positive.  The binary value the interpreter holds differs from it by    *)
(* less than any hundredth, which only round() can observe (see round2).   *)

RECURSIVE GCD(_, _)
GCD(a, b) == IF b = 0 THEN a ELSE GCD(b, a % b)

Abs(n) == IF n < 0 THEN -n ELSE n

Frac(n, d) == LET g == GCD(Abs(n), d) IN <<n \div g, d \div g>>

Float(i) == <<i, 1>>

Add(x, y) ==
    LET g == GCD(x[2], y[2])
    IN  Frac(x[1] * (y[2] \div g) + y[1] * (x[2] \div g), x[2] * (y[2] \div g))

Sub(x, y) == Add(x, <<-y[1], y[2]>>)

Mul(x, y) ==
    LET g1 == GCD(Abs(x[1]), y[2])
        g2 == GCD(Abs(y[1]), x[2])
    IN  <<(x[1] \div g1) * (y[1] \div g2), (x[2] \div g2) * (y[2] \div g1)>>

Div(x, n) == Mul(x, <<1, n>>)

Leq(x, y) ==
    LET g == GCD(x[2], y[2])
    IN  x[1] * (y[2] \div g) <= y[1] * (x[2] \div g)

min(x, y) == IF Leq(x, y) THEN x ELSE y

max(x, y) == IF Leq(x, y) THEN y ELSE x

RECURSIVE sum(_)
sum(scores) == IF scores = <<>> THEN Float(0) ELSE Add(Head(scores), sum(Tail(scores)))

\* the hundredths below a non-negative x, and what is left of x above them
Hundredths(x) == (x[1] \div x[2]) * 100 + ((x[1] % x[2]) * 100) \div x[2]

Remainder(x) == ((x[1] % x[2]) * 100) % x[2]

\* x lies exactly half way between two hundredths
IsTie(x) == 2 * Remainder(x) = x[2]

\* round(x, 2) of a non-negative float: the nearest hundredth.  When the
\* exact value is half way, the binary value held for it lies on either
\* side, and `up' tells on which.
round2(x, up) ==
    IF 2 * Remainder(x) > x[2] \/ (IsTie(x) /\ up)
    THEN Frac(Hundredths(x) + 1, 100)
    ELSE Frac(Hundredths(x), 100)

\* the sides a rounding of x can take
Sides(x) == IF IsTie(x) THEN BOOLEAN ELSE {FALSE}

\* money is counted in millions of dollars, so that the 10^10 of the market
\* thresholds fits the integers: {'k': 1000, 'm': 1000000, 'b': 1000000000}
multiplier(unit) ==
    CASE unit = "k" -> <<1, 1000>>
      [] unit = "m" -> <<1, 1>>
      [] unit = "b" -> <<1000, 1>>
      [] OTHER -> <<1, 1000000>>

\* a metric amount that is no number (None, a string): comparing it raises
NotNumeric == -1

\* the first of the indices at which a loop's test holds, 0 when there is
\* none: the place where a `for ...: if ...: break' loop stops
First(hits) == IF hits = {} THEN 0 ELSE CHOOSE i \in hits : \A j \in hits : i <= j

\* return min(score, 100.0), and the same return without the clamp
clamp_missing(score) == score

clamp(score) == min(score, Float(100))

\* _calculate_financial_score (scoring_engine.py:150-215)
calculate_financial_score(nlp_analysis, document_content) ==
    LET financial_metrics == nlp_analysis.financial_metrics
        revenue_metrics == financial_metrics.revenue_metrics
        funding_metrics == financial_metrics.funding_metrics
        valuation_metrics == financial_metrics.valuation_metrics
        revenue_model == nlp_analysis.business_insights.revenue_model
        \* for metric in revenue_metrics: if amount > 1000000: +10, break
        Large(metric) == metric.amount = NotNumeric \/ metric.amount > 1000000
        large == First({i \in DOMAIN revenue_metrics : Large(revenue_metrics[i])})
        \* for metric in funding_metrics: >= $5M: +15, break; >= $1M: +10, break
        actual_amount(metric) == Mul(Float(metric.amount), multiplier(metric.unit))
        Funded(metric) == metric.amount = NotNumeric
                             \/ Leq(Float(1), actual_amount(metric))
        funded == First({i \in DOMAIN funding_metrics : Funded(funding_metrics[i])})
        raises == \/ large > 0 /\ revenue_metrics[large].amount = NotNumeric
                  \/ funded > 0 /\ funding_metrics[funded].amount = NotNumeric
        score == 50
            + (IF revenue_metrics # <<>> THEN 15 ELSE 0)
            + (IF large > 0 THEN 10 ELSE 0)
            + (IF funding_metrics # <<>> THEN 10 ELSE 0)
            + (IF funded = 0 THEN 0
               ELSE IF Leq(Float(5), actual_amount(funding_metrics[funded]))
                    THEN 15 ELSE 10)
            + (IF valuation_metrics # <<>> THEN 10 ELSE 0)
            + (IF revenue_model \in {"subscription", "saas"} THEN 15
               ELSE IF revenue_model \in {"transaction", "marketplace"} THEN 10
               ELSE 0)
            + (IF document_content.document_type = "financial_model" THEN 10 ELSE 0)
    IN  IF raises THEN Float(50) ELSE clamp(Float(score))

\* a market size amount that float() does not parse
Unparsable == -2

\* _calculate_market_score (scoring_engine.py:217-293)
calculate_market_score(nlp_analysis, document_content) ==
    LET market_analysis == nlp_analysis.market_analysis
        business_insights == nlp_analysis.business_insights
        market_size == market_analysis.market_size
        competitors == market_analysis.competitors
        \* float(amount) raises for an unparsable amount and the loop continues
        market_value(size_info) == Mul(Float(size_info.amount), multiplier(size_info.unit))
        Sized(size_info) == size_info.amount # Unparsable
                               /\ Leq(Float(100), market_value(size_info))
        sized == First({i \in DOMAIN market_size : Sized(market_size[i])})
        Trending(topic) == topic.topic \in {"technology", "ai", "blockchain", "fintech", "healthtech"}
        score == 50
            + (IF market_size # <<>> THEN 15 ELSE 0)
            + (IF sized = 0 THEN 0
               ELSE IF Leq(Float(10000), market_value(market_size[sized])) THEN 20
               ELSE IF Leq(Float(1000), market_value(market_size[sized])) THEN 15
               ELSE 10)
            + (IF competitors = <<>> THEN 0
               ELSE IF Len(competitors) <= 3 THEN 15
               ELSE IF Len(competitors) <= 6 THEN 10
               ELSE 5)
            + (IF business_insights.business_model \in {"saas", "marketplace", "fintech"}
               THEN 10 ELSE 0)
            + (IF business_insights.target_market # <<>> THEN 10 ELSE 0)
            + (IF market_analysis.market_trends # <<>> THEN 10 ELSE 0)
            + (IF First({i \in DOMAIN nlp_analysis.key_topics : Trending(nlp_analysis.key_topics[i])}) > 0 THEN 5 ELSE 0)
    IN  clamp(Float(score))

\* _calculate_team_score (scoring_engine.py:295-361); a founder's context and an
\* organization's text are kept as what the score reads in them: whether the
\* context mentions experience, whether the name holds a prestigious company
calculate_team_score(nlp_analysis, document_content) ==
    LET team_info == nlp_analysis.team_information
        founders == team_info.founders
        team_size == team_info.team_size
        organizations == nlp_analysis.entities.organizations
        Experienced(founder) == founder.experience
        Prestigious(org) == org.prestigious
        score == 50
            + (IF founders # <<>> THEN 15 ELSE 0)
            + (IF Len(founders) >= 2 THEN 10 ELSE 0)
            + (IF First({i \in DOMAIN founders : Experienced(founders[i])}) > 0 THEN 10 ELSE 0)
            + (IF team_size = None THEN 0
               ELSE IF 5 <= team_size /\ team_size <= 20 THEN 15
               ELSE IF 2 <= team_size /\ team_size <= 50 THEN 10
               ELSE IF team_size > 50 THEN 5
               ELSE 0)
            + (IF team_info.key_personnel # <<>> THEN 10 ELSE 0)
            + (IF team_info.experience_highlights # <<>> THEN 15 ELSE 0)
            + (IF First({i \in DOMAIN organizations : Prestigious(organizations[i])}) > 0 THEN 10 ELSE 0)
    IN  clamp(Float(score))

\* development_indicators, in the order the dict is iterated
development_indicators ==
    << [indicator |-> "mvp", points |-> 10],
       [indicator |-> "prototype", points |-> 8],
       [indicator |-> "beta", points |-> 12],
       [indicator |-> "launched", points |-> 15],
       [indicator |-> "customers", points |-> 15],
       [indicator |-> "users", points |-> 12],
       [indicator |-> "traction", points |-> 15] >>

validation_words == {"customer feedback", "user feedback", "testimonial"}

scalability_words == {"scalable", "scale", "growth", "expand"}

\* _calculate_product_score (scoring_engine.py:363-423); full_text is kept as
\* the set of the phrases above that occur in it
calculate_product_score(nlp_analysis, document_content) ==
    LET business_insights == nlp_analysis.business_insights
        key_topics == nlp_analysis.key_topics
        full_text == document_content.full_text
        Technology(topic) == topic.topic = "technology"
        tech_topics == SelectSeq(key_topics, Technology)
        tech_score == IF tech_topics # <<>> THEN tech_topics[1].relevance_score
                      ELSE Float(0)
        InText(entry) == entry.indicator \in full_text
        stage == First({i \in DOMAIN development_indicators : InText(development_indicators[i])})
        score == 50
            + (IF business_insights.value_proposition # <<>> THEN 15 ELSE 0)
            + (IF business_insights.competitive_advantages # <<>> THEN 15 ELSE 0)
            + (IF stage > 0 THEN development_indicators[stage].points ELSE 0)
            + (IF validation_words \cap full_text # {} THEN 10 ELSE 0)
            + (IF scalability_words \cap full_text # {} THEN 10 ELSE 0)
    IN  clamp(Add(Float(score), Mul(tech_score, Float(20))))

\* the six categories _assess_risk_factors (scoring_engine.py:425-495) scores
risk_categories ==
    <<"market", "financial", "operational", "regulatory", "technology", "team">>

\* the severity scale in even steps: 25, 50, 75, 100
severity_scores_even(severity) ==
    CASE severity = "low" -> 25
      [] severity = "medium" -> 50
      [] severity = "high" -> 75
      [] severity = "critical" -> 100
      [] OTHER -> 50

\* severity_scores.get(severity, 50)
severity_scores(severity) ==
    CASE severity = "low" -> 20
      [] severity = "medium" -> 50
      [] severity = "high" -> 80
      [] severity = "critical" -> 95
      [] OTHER -> 50

\* _assess_risk_factors: the six category scores (the average of the category's
\* risks, 50 when it has none), their mean, and the risks it lists
assess_risk_factors(nlp_analysis) ==
    LET identified_risks == nlp_analysis.risk_factors
        risk_scores(category) ==
            LET In(risk) == risk.category = category
                own == SelectSeq(identified_risks, In)
            IN  [i \in 1..Len(own) |-> Float(severity_scores(own[i].severity))]
        category_risk(category) ==
            IF risk_scores(category) = <<>> THEN Float(50)
            ELSE min(Div(sum(risk_scores(category)), Len(risk_scores(category))),
                     Float(100))
        category_risks == [i \in 1..Len(risk_categories) |-> category_risk(risk_categories[i])]
    IN  [category_risks |-> category_risks,
         overall_risk_score |-> Div(sum(category_risks), Len(category_risks)),
         risk_factors |-> [i \in 1..Len(identified_risks) |->
                             [category |-> identified_risks[i].category,
                              severity |-> identified_risks[i].severity,
                              score |-> severity_scores(identified_risks[i].severity)]]]

\* risk_adjustment = 1 - (risk_score / 100 * 0.3), and the same with 0.5
risk_adjustment_half(risk_score) == Sub(Float(1), Mul(Div(risk_score, 100), <<1, 2>>))

risk_adjustment(risk_score) == Sub(Float(1), Mul(Div(risk_score, 100), <<3, 10>>))

\* self.weights: 0.30, 0.25, 0.25, 0.20
weights ==
    [financial |-> <<3, 10>>, market |-> <<1, 4>>, team |-> <<1, 4>>,
     product |-> <<1, 5>>]

Dimensions == {"financial", "market", "team", "product"}

\* overall_score of the four adjusted scores (scoring_engine.py:95-100), and
\* the same with the four scores weighted equally
weighted_score_equal(adjusted) ==
    Div(sum(<<adjusted.financial, adjusted.market, adjusted.team, adjusted.product>>), 4)

weighted_score(adjusted) ==
    sum(<< Mul(adjusted.financial, weights.financial),
           Mul(adjusted.market, weights.market),
           Mul(adjusted.team, weights.team),
           Mul(adjusted.product, weights.product) >>)

\* the ladder with strict comparisons: a score on a threshold gets the tier below
generate_recommendation_strict(overall_score) ==
    IF ~Leq(overall_score, Float(85)) THEN "strong_buy"
    ELSE IF ~Leq(overall_score, Float(70)) THEN "buy"
    ELSE IF ~Leq(overall_score, Float(50)) THEN "hold"
    ELSE "pass"

\* _generate_recommendation (scoring_engine.py:507-516)
generate_recommendation(overall_score) ==
    IF Leq(Float(85), overall_score) THEN "strong_buy"
    ELSE IF Leq(Float(70), overall_score) THEN "buy"
    ELSE IF Leq(Float(50), overall_score) THEN "hold"
    ELSE "pass"

\* margin, lower_bound and upper_bound of _calculate_confidence_interval
\* (scoring_engine.py:497-505), before the two roundings
interval_bounds_unclamped(score, confidence) ==
    LET margin == Mul(Sub(Float(1), confidence), Float(20))
    IN  [lower |-> max(Float(0), Sub(score, margin)), upper |-> Add(score, margin)]

\* the same with half the margin above the score
interval_bounds_lopsided(score, confidence) ==
    LET margin == Mul(Sub(Float(1), confidence), Float(20))
    IN  [lower |-> max(Float(0), Sub(score, margin)),
         upper |-> min(Float(100), Add(score, Div(margin, 2)))]

interval_bounds(score, confidence) ==
    LET margin == Mul(Sub(Float(1), confidence), Float(20))
    IN  [lower |-> max(Float(0), Sub(score, margin)),
         upper |-> min(Float(100), Add(score, margin))]

\* the order of the dimensions in the dictionaries of scores handed to
\* _identify_key_strengths and _identify_key_concerns (scoring_engine.py:117-128)
score_order == <<"financial", "market", "team", "product">>

\* s[:n]
Take(s, n) == IF Len(s) <= n THEN s ELSE SubSeq(s, 1, n)

\* the entries of a list of strengths or concerns: what the entry is about
\* (its text also shows the score or the description it was chosen by)
Entry(kind, name) == [kind |-> kind, name |-> name]

\* _identify_key_strengths (scoring_engine.py:604-629)
identify_key_strengths(nlp_analysis, scores) ==
    LET High(dimension) == Leq(Float(75), scores[dimension])
        Strong(dimension) == Entry("strong", dimension)
        high == SelectSeq(score_order, High)
        strengths ==
            [i \in DOMAIN high |-> Strong(high[i])]
            \o (IF nlp_analysis.financial_metrics.revenue_metrics # <<>>
                THEN <<Entry("revenue", "")>> ELSE <<>>)
            \o (IF nlp_analysis.financial_metrics.funding_metrics # <<>>
                THEN <<Entry("funding", "")>> ELSE <<>>)
            \o (IF nlp_analysis.market_analysis.market_size # <<>>
                THEN <<Entry("market", "")>> ELSE <<>>)
            \o (IF Len(nlp_analysis.team_information.founders) >= 2
                THEN <<Entry("co-founders", "")>> ELSE <<>>)
    IN  Take(strengths, 5)

\* _identify_key_concerns (scoring_engine.py:631-655)
identify_key_concerns(risk_factors, scores) ==
    LET Low(dimension) == Leq(scores[dimension], Float(40))
        low == SelectSeq(score_order, Low)
        Risky(category) ==
            \E i \in DOMAIN risk_categories :
                /\ risk_categories[i] = category
                /\ Leq(Float(70), risk_factors.category_risks[i])
        risky == SelectSeq(risk_categories, Risky)
        Severe(risk) == risk.severity \in {"high", "critical"}
        high_severity_risks == Take(SelectSeq(risk_factors.risk_factors, Severe), 3)
        concerns ==
            [i \in DOMAIN low |-> Entry("weak", low[i])]
            \o [i \in DOMAIN risky |-> Entry("high risk", risky[i])]
            \o [i \in DOMAIN high_severity_risks |->
                    Entry("risk", high_severity_risks[i].category)]
    IN  Take(concerns, 5)

\* the values calculate_investment_score (scoring_engine.py:56-148) computes
\* before it rounds them
score_values(nlp_analysis, document_content) ==
    LET financial_score == calculate_financial_score(nlp_analysis, document_content)
        market_score == calculate_market_score(nlp_analysis, document_content)
        team_score == calculate_team_score(nlp_analysis, document_content)
        product_score == calculate_product_score(nlp_analysis, document_content)
        risk_factors == assess_risk_factors(nlp_analysis)
        risk_score == risk_factors.overall_risk_score
        adjustment == risk_adjustment(risk_score)
        adjusted == [financial |-> Mul(financial_score, adjustment),
                     market |-> Mul(market_score, adjustment),
                     team |-> Mul(team_score, adjustment),
                     product |-> Mul(product_score, adjustment)]
        overall_score == weighted_score(adjusted)
    IN  [raw |-> [financial |-> financial_score, market |-> market_score,
                  team |-> team_score, product |-> product_score],
         risk_factors |-> risk_factors,
         risk_score |-> risk_score,
         risk_adjustment |-> adjustment,
         adjusted |-> adjusted,
         overall_score |-> overall_score,
         bounds |-> interval_bounds(overall_score, nlp_analysis.confidence_score),
         recommendation |-> generate_recommendation(overall_score),
         key_strengths |-> identify_key_strengths(nlp_analysis, adjusted),
         key_concerns |->
             identify_key_concerns(risk_factors,
                                   [financial |-> financial_score, market |-> market_score,
                                    team |-> team_score, product |-> product_score])]

\* the sides the roundings of one call can take: one computation gives one
\* binary value, so equal adjusted scores round alike, and so does a bound
\* of the interval that is the overall score itself (a margin of 0.0)
Roundings(v) ==
    {up \in [financial : Sides(v.adjusted.financial), market : Sides(v.adjusted.market),
             team : Sides(v.adjusted.team), product : Sides(v.adjusted.product),
             risk : Sides(v.risk_score), overall : Sides(v.overall_score),
             lower : Sides(v.bounds.lower), upper : Sides(v.bounds.upper)] :
        /\ \A d, e \in Dimensions : v.adjusted[d] = v.adjusted[e] => up[d] = up[e]
        /\ v.bounds.lower = v.overall_score => up.lower = up.overall
        /\ v.bounds.upper = v.overall_score => up.upper = up.overall}

\* ScoreResult(...) (scoring_engine.py:131-141)
ScoreResult(v, up) ==
    [financial_score |-> round2(v.adjusted.financial, up.financial),
     market_score |-> round2(v.adjusted.market, up.market),
     team_score |-> round2(v.adjusted.team, up.team),
     product_score |-> round2(v.adjusted.product, up.product),
     risk_score |-> round2(v.risk_score, up.risk),
     overall_score |-> round2(v.overall_score, up.overall),
     confidence_interval |-> <<round2(v.bounds.lower, up.lower),
                               round2(v.bounds.upper, up.upper)>>,
     recommendation |-> v.recommendation,
     reasoning |-> [risk_assessment |-> v.risk_factors,
                    key_strengths |-> v.key_strengths,
                    key_concerns |-> v.key_concerns]]

----------------------------------------------------------------------------
(* The analyses a call is studied on *)

SeqsUpTo(S, n) == UNION {[1..k -> S] : k \in 0..n}

\* a list the score only tests for being empty and for its length
Items(n) == [i \in 1..n |-> "item"]

\* revenue and funding metrics as _extract_financial_metrics builds them
\* (nlp_processor.py:210-290): amount is float(...), unit one of k, m, b or ''
RevenueSamples ==
    {<<>>,
     <<[amount |-> 2, unit |-> "m"]>>,
     <<[amount |-> 2000000, unit |-> ""]>>,
     <<[amount |-> NotNumeric, unit |-> ""]>>,
     <<[amount |-> 2000000, unit |-> ""], [amount |-> NotNumeric, unit |-> ""]>>,
     <<[amount |-> NotNumeric, unit |-> ""], [amount |-> 2000000, unit |-> ""]>>}

FundingSamples ==
    {[amount |-> 500, unit |-> "k"], [amount |-> 2, unit |-> "m"],
     [amount |-> 6, unit |-> "m"]}

\* market sizes as _extract_market_information builds them (nlp_processor.py:348-389)
MarketSizeSamples ==
    {<<>>,
     <<[amount |-> 50, unit |-> "m"]>>,
     <<[amount |-> 500, unit |-> "m"]>>,
     <<[amount |-> 5, unit |-> "b"]>>,
     <<[amount |-> 20, unit |-> "b"]>>,
     <<[amount |-> Unparsable, unit |-> ""]>>,
     <<[amount |-> Unparsable, unit |-> ""], [amount |-> 20, unit |-> "b"]>>,
     <<[amount |-> 50, unit |-> "m"], [amount |-> 5, unit |-> "b"]>>,
     <<[amount |-> 500, unit |-> "m"], [amount |-> 20, unit |-> "b"]>>}

\* numbers of competitors on both sides of the limits 3 and 6
CompetitorSamples == {Items(n) : n \in {0, 1, 3, 4, 6, 7}}

\* number of keywords of the technology topic (nlp_processor.py:513)
TechnologyKeywords == 7

\* key_topics as _extract_key_topics builds them: relevance_score is
\* keyword_count / len(keywords)
KeyTopicsSamples ==
    {<<>>, <<[topic |-> "business", relevance_score |-> <<1, 2>>]>>}
    \cup {<<[topic |-> "technology", relevance_score |-> Frac(k, TechnologyKeywords)]>> :
            k \in 1..TechnologyKeywords}

\* risk factors: _extract_risk_factors (nlp_processor.py:437-472) gives each a
\* category and a severity; "General" and "unknown" are values the score does
\* not know
RiskSamples ==
    [category : {"market", "team", "General"},
     severity : {"low", "medium", "high", "critical", "unknown"}]

\* lists of critical risk factors of three, four and six categories, and of
\* four high risk factors of one category
SevereRiskSamples ==
    LET critical(category) == [category |-> category, severity |-> "critical"]
        high(category) == [category |-> category, severity |-> "high"]
    IN  {<<critical("market"), critical("financial"), critical("team")>>,
         <<critical("market"), critical("financial"), critical("team"),
           critical("operational")>>,
         [i \in DOMAIN risk_categories |-> critical(risk_categories[i])],
         <<high("market"), high("market"), high("market"), high("market")>>}

ConfidenceSamples == {Float(0), <<3, 10>>, <<2, 3>>, Float(1)}

Phrases == {"mvp", "prototype", "beta", "traction", "customer feedback", "scalable"}

TeamSizeSamples == {None, 1, 2, 5, 20, 21, 50, 51}

\* _empty_analysis_result (nlp_processor.py:624-686) and a document without text
EmptyInput ==
    [nlp_analysis |->
        [financial_metrics |-> [revenue_metrics |-> <<>>, funding_metrics |-> <<>>,
                                valuation_metrics |-> <<>>],
         business_insights |-> [business_model |-> "None", revenue_model |-> "None",
                                target_market |-> <<>>, value_proposition |-> <<>>,
                                competitive_advantages |-> <<>>],
         market_analysis |-> [market_size |-> <<>>, competitors |-> <<>>,
                              market_trends |-> <<>>],
         team_information |-> [founders |-> <<>>, team_size |-> None,
                               key_personnel |-> <<>>, experience_highlights |-> <<>>],
         entities |-> [organizations |-> <<>>],
         risk_factors |-> <<>>,
         key_topics |-> <<>>,
         confidence_score |-> Float(0)],
     document_content |-> [document_type |-> "", full_text |-> {}]]

\* an analysis with one signal in each dimension
ModestInput ==
    [EmptyInput EXCEPT
        !.nlp_analysis.financial_metrics.revenue_metrics = <<[amount |-> 2, unit |-> "m"]>>,
        !.nlp_analysis.market_analysis.market_size = <<[amount |-> 50, unit |-> "m"]>>,
        !.nlp_analysis.team_information.founders = <<[experience |-> FALSE]>>,
        !.nlp_analysis.business_insights.value_proposition = Items(1),
        !.nlp_analysis.confidence_score = <<1, 2>>]

\* an analysis with every signal
FullInput ==
    [nlp_analysis |->
        [financial_metrics |-> [revenue_metrics |-> <<[amount |-> 2000000, unit |-> ""]>>,
                                funding_metrics |-> <<[amount |-> 6, unit |-> "m"]>>,
                                valuation_metrics |-> Items(1)],
         business_insights |-> [business_model |-> "saas", revenue_model |-> "subscription",
                                target_market |-> Items(1), value_proposition |-> Items(1),
                                competitive_advantages |-> Items(1)],
         market_analysis |-> [market_size |-> <<[amount |-> 20, unit |-> "b"]>>,
                              competitors |-> Items(2), market_trends |-> Items(1)],
         team_information |-> [founders |-> <<[experience |-> TRUE], [experience |-> TRUE]>>,
                               team_size |-> 10, key_personnel |-> Items(1),
                               experience_highlights |-> Items(1)],
         entities |-> [organizations |-> <<[prestigious |-> TRUE]>>],
         risk_factors |-> <<>>,
         key_topics |-> <<[topic |-> "technology", relevance_score |-> Float(1)]>>,
         confidence_score |-> Float(1)],
     document_content |-> [document_type |-> "financial_model",
                           full_text |-> {"launched", "customer feedback", "scalable"}]]

\* the analysis that differs from input b in the financial signals, in the
\* market signals, in the team signals, in the product signals, in the risk
\* factors, in the confidence
FinancialVariant(b, revenue, funding, valuation, revenue_model, document_type) ==
    [b EXCEPT !.nlp_analysis.financial_metrics =
                  [revenue_metrics |-> revenue, funding_metrics |-> funding,
                   valuation_metrics |-> valuation],
              !.nlp_analysis.business_insights.revenue_model = revenue_model,
              !.document_content.document_type = document_type]

MarketVariant(b, market_size, competitors, trends, business_model, target_market, key_topics) ==
    [b EXCEPT !.nlp_analysis.market_analysis =
                  [market_size |-> market_size, competitors |-> competitors,
                   market_trends |-> trends],
              !.nlp_analysis.business_insights.business_model = business_model,
              !.nlp_analysis.business_insights.target_market = target_market,
              !.nlp_analysis.key_topics = key_topics]

TeamVariant(b, founders, team_size, key_personnel, experience_highlights, organizations) ==
    [b EXCEPT !.nlp_analysis.team_information =
                  [founders |-> founders, team_size |-> team_size,
                   key_personnel |-> key_personnel,
                   experience_highlights |-> experience_highlights],
              !.nlp_analysis.entities.organizations = organizations]

ProductVariant(b, value_proposition, competitive_advantages, key_topics, full_text) ==
    [b EXCEPT !.nlp_analysis.business_insights.value_proposition = value_proposition,
              !.nlp_analysis.business_insights.competitive_advantages = competitive_advantages,
              !.nlp_analysis.key_topics = key_topics,
              !.document_content.full_text = full_text]

RiskVariant(b, risk_factors) == [b EXCEPT !.nlp_analysis.risk_factors = risk_factors]

ConfidenceVariant(b, confidence_score) ==
    [b EXCEPT !.nlp_analysis.confidence_score = confidence_score]

\* a call of calculate_investment_score that has not run yet
Called(input) ==
    [stage |-> "called", nlp_analysis |-> input.nlp_analysis,
     document_content |-> input.document_content]

Present == {<<>>, Items(1)}

\* the calls under study: an analysis with no signal, with one signal in each
\* dimension or with every signal, changed in one group of signals
InitScore ==
    /\ doc = NewDocument("None")
    /\ uploaded = FALSE
    /\ file_exists = FALSE
    /\ runs = [r \in Runs |-> NoTask]
    /\ nruns = 0
    /\ now = 1
    /\ response = 0
    /\ overlapped = FALSE
    /\ \E b \in {EmptyInput, ModestInput, FullInput} :
        \/ \E r \in RevenueSamples,
              f \in SeqsUpTo(FundingSamples, MaxFunding), v \in Present,
              m \in {"None", "subscription", "marketplace"},
              t \in {"", "financial_model"} :
                call = Called(FinancialVariant(b, r, f, v, m, t))
        \/ \E z \in MarketSizeSamples, c \in CompetitorSamples,
              t \in Present, m \in {"None", "saas", "e-commerce"}, g \in Present,
              k \in {<<>>, <<[topic |-> "technology", relevance_score |-> Float(1)]>>} :
                call = Called(MarketVariant(b, z, c, t, m, g, k))
        \/ \E f \in SeqsUpTo([experience : BOOLEAN], MaxFounders),
              n \in TeamSizeSamples, p \in Present, h \in Present,
              o \in {<<>>, <<[prestigious |-> FALSE]>>, <<[prestigious |-> TRUE]>>} :
                call = Called(TeamVariant(b, f, n, p, h, o))
        \/ \E p \in Present, a \in Present, k \in KeyTopicsSamples,
              x \in {w \in SUBSET Phrases : Cardinality(w) <= MaxPhrases} :
                call = Called(ProductVariant(b, p, a, k, x))
        \/ \E r \in SeqsUpTo(RiskSamples, MaxRisks) \cup SevereRiskSamples :
                call = Called(RiskVariant(b, r))
        \/ \E c \in ConfidenceSamples : call = Called(ConfidenceVariant(b, c))

\* d.get(key, default)
Get(d, key, default) == IF key \in DOMAIN d THEN d[key] ELSE default

\* an analysis in which a missing key makes every key read as missing
analysis_all_or_nothing(a) ==
    LET complete == {"financial_metrics", "business_insights", "market_analysis",
                     "team_information", "entities", "risk_factors", "key_topics",
                     "confidence_score"} \subseteq DOMAIN a
        financial_metrics == IF complete THEN a.financial_metrics ELSE <<>>
        business_insights == IF complete THEN a.business_insights ELSE <<>>
        market_analysis == IF complete THEN a.market_analysis ELSE <<>>
        team_info == IF complete THEN a.team_information ELSE <<>>
        entities == IF complete THEN a.entities ELSE <<>>
    IN  [financial_metrics |->
            [revenue_metrics |-> Get(financial_metrics, "revenue_metrics", <<>>),
             funding_metrics |-> Get(financial_metrics, "funding_metrics", <<>>),
             valuation_metrics |-> Get(financial_metrics, "valuation_metrics", <<>>)],
         business_insights |->
            [business_model |-> Get(business_insights, "business_model", "None"),
             revenue_model |-> Get(business_insights, "revenue_model", "None"),
             target_market |-> Get(business_insights, "target_market", <<>>),
             value_proposition |-> Get(business_insights, "value_proposition", <<>>),
             competitive_advantages |-> Get(business_insights, "competitive_advantages", <<>>)],
         market_analysis |->
            [market_size |-> Get(market_analysis, "market_size", <<>>),
             competitors |-> Get(market_analysis, "competitors", <<>>),
             market_trends |-> Get(market_analysis, "market_trends", <<>>)],
         team_information |->
            [founders |-> Get(team_info, "founders", <<>>),
             team_size |-> Get(team_info, "team_size", None),
             key_personnel |-> Get(team_info, "key_personnel", <<>>),
             experience_highlights |-> Get(team_info, "experience_highlights", <<>>)],
         entities |-> [organizations |-> Get(entities, "organizations", <<>>)],
         risk_factors |-> IF complete THEN a.risk_factors ELSE <<>>,
         key_topics |-> IF complete THEN a.key_topics ELSE <<>>,
         confidence_score |-> IF complete THEN a.confidence_score ELSE <<1, 2>>]

\* the analysis as the engine reads it: every field through .get with the
\* default of the place that reads it (scoring_engine.py:104, 159-200, 226-281,
\* 304-343, 372-386, 443)
analysis_with_defaults(a) ==
    LET financial_metrics == Get(a, "financial_metrics", <<>>)
        business_insights == Get(a, "business_insights", <<>>)
        market_analysis == Get(a, "market_analysis", <<>>)
        team_info == Get(a, "team_information", <<>>)
        entities == Get(a, "entities", <<>>)
    IN  [financial_metrics |->
            [revenue_metrics |-> Get(financial_metrics, "revenue_metrics", <<>>),
             funding_metrics |-> Get(financial_metrics, "funding_metrics", <<>>),
             valuation_metrics |-> Get(financial_metrics, "valuation_metrics", <<>>)],
         business_insights |->
            [business_model |-> Get(business_insights, "business_model", "None"),
             revenue_model |-> Get(business_insights, "revenue_model", "None"),
             target_market |-> Get(business_insights, "target_market", <<>>),
             value_proposition |-> Get(business_insights, "value_proposition", <<>>),
             competitive_advantages |-> Get(business_insights, "competitive_advantages", <<>>)],
         market_analysis |->
            [market_size |-> Get(market_analysis, "market_size", <<>>),
             competitors |-> Get(market_analysis, "competitors", <<>>),
             market_trends |-> Get(market_analysis, "market_trends", <<>>)],
         team_information |->
            [founders |-> Get(team_info, "founders", <<>>),
             team_size |-> Get(team_info, "team_size", None),
             key_personnel |-> Get(team_info, "key_personnel", <<>>),
             experience_highlights |-> Get(team_info, "experience_highlights", <<>>)],
         entities |-> [organizations |-> Get(entities, "organizations", <<>>)],
         risk_factors |-> Get(a, "risk_factors", <<>>),
         key_topics |-> Get(a, "key_topics", <<>>),
         confidence_score |-> Get(a, "confidence_score", <<1, 2>>)]

\* the content as the engine reads it (scoring_engine.py:208, 393)
content_with_defaults(c) ==
    [document_type |-> Get(c, "document_type", ""),
     full_text |-> Get(c, "full_text", {})]

\* the call runs and returns its ScoreResult
calculate_investment_score ==
    /\ call.stage = "called"
    /\ \E v \in {score_values(analysis_with_defaults(call.nlp_analysis),
                               content_with_defaults(call.document_content))} :
           \E up \in Roundings(v) :
              call' = [stage |-> "returned", nlp_analysis |-> call.nlp_analysis,
                       document_content |-> call.document_content,
                       values |-> v, result |-> ScoreResult(v, up)]
    /\ UNCHANGED <<doc, uploaded, file_exists, runs, nruns, now, response, overlapped>>

NextScore == calculate_investment_score

SpecScore == InitScore /\ [][NextScore]_vars

----------------------------------------------------------------------------
(* Calls with missing fields *)

\* an analysis and a content with two signals in each dimension, a high market
\* risk and full confidence
PartialBase ==
    [nlp_analysis |->
        [financial_metrics |-> [revenue_metrics |-> <<[amount |-> 2, unit |-> "m"]>>,
                                funding_metrics |-> <<[amount |-> 2, unit |-> "m"]>>,
                                valuation_metrics |-> <<>>],
         business_insights |-> [business_model |-> "None", revenue_model |-> "None",
                                target_market |-> <<>>, value_proposition |-> Items(1),
                                competitive_advantages |-> Items(1)],
         market_analysis |-> [market_size |-> <<[amount |-> 50, unit |-> "m"]>>,
                              competitors |-> Items(2), market_trends |-> <<>>],
         team_information |-> [founders |-> <<[experience |-> FALSE]>>, team_size |-> 5,
                               key_personnel |-> <<>>, experience_highlights |-> <<>>],
         entities |-> [organizations |-> <<>>],
         risk_factors |-> <<[category |-> "market", severity |-> "high"]>>,
         key_topics |-> <<>>,
         confidence_score |-> Float(1)],
     document_content |-> [document_type |-> "financial_model", full_text |-> {"mvp"}]]

\* the dictionary d without the keys outside K
Restrict(d, K) == [k \in K |-> d[k]]

\* the dictionaries of an analysis
Groups ==
    {"financial_metrics", "business_insights", "market_analysis", "team_information",
     "entities"}

\* the calls under study: PartialBase without some keys of the analysis and of
\* the content, or without some keys of one dictionary of the analysis
InitPartial ==
    /\ doc = NewDocument("None")
    /\ uploaded = FALSE
    /\ file_exists = FALSE
    /\ runs = [r \in Runs |-> NoTask]
    /\ nruns = 0
    /\ now = 1
    /\ response = 0
    /\ overlapped = FALSE
    /\ \/ \E K \in SUBSET DOMAIN PartialBase.nlp_analysis,
              C \in SUBSET DOMAIN PartialBase.document_content :
                call = Called([nlp_analysis |-> Restrict(PartialBase.nlp_analysis, K),
                               document_content |-> Restrict(PartialBase.document_content, C)])
       \/ \E g \in Groups :
             \E K \in SUBSET DOMAIN PartialBase.nlp_analysis[g] :
                call = Called([PartialBase EXCEPT
                                  !.nlp_analysis[g] = Restrict(PartialBase.nlp_analysis[g], K)])

SpecPartial == InitPartial /\ [][NextScore]_vars

----------------------------------------------------------------------------
(* The recommendation function on its own: _generate_recommendation applied to *)
(* a score given in hundredths                                                  *)

\* the scores with two decimals between 0 and 100
ScoreSamples == {Frac(n, 100) : n \in 0..10000}

InitRecommend ==
    /\ doc = NewDocument("None")
    /\ uploaded = FALSE
    /\ file_exists = FALSE
    /\ runs = [r \in Runs |-> NoTask]
    /\ nruns = 0
    /\ now = 1
    /\ response = 0
    /\ overlapped = FALSE
    /\ \E overall_score \in ScoreSamples :
           call = [stage |-> "score", overall_score |-> overall_score]

recommend ==
    /\ call.stage = "score"
    /\ call' = [stage |-> "recommended", overall_score |-> call.overall_score,
                recommendation |-> generate_recommendation(call.overall_score)]
    /\ UNCHANGED <<doc, uploaded, file_exists, runs, nruns, now, response, overlapped>>

NextRecommend == recommend

SpecRecommend == InitRecommend /\ [][NextRecommend]_vars

----------------------------------------------------------------------------
(* Text analysis: NLPProcessor (nlp_processor.py).  A text is given by what    *)
(* the patterns and keyword lists of the extractors find in it.                *)

\* the keys of entities and of financial_metrics
EntityCategories ==
    {"organizations", "people", "locations", "money", "dates", "products", "technologies"}

FinancialCategories ==
    {"revenue_metrics", "funding_metrics", "profitability_metrics", "growth_metrics",
     "valuation_metrics"}

\* the fields of an analysis besides entities and financial_metrics
AnalysisFields ==
    {"business_insights", "market_analysis", "team_information", "risk_factors",
     "sentiment", "document_classification", "key_topics", "confidence_score"}

\* number of entries of tech_keywords (nlp_processor.py:196)
TechKeywords == 10

\* number of matches of the patterns of one financial category in a text
MaxMetrics == 2

Repeat(x, n) == [i \in 1..n |-> x]

\* _extract_entities returning a dictionary with one key when the spaCy model is
\* not loaded
extract_entities_bare(text, nlp) ==
    IF ~nlp THEN [c \in {"organizations"} |-> <<>>]
    ELSE [c \in EntityCategories |->
            IF c = "technologies" THEN Items(text.technologies)
            ELSE IF c = "organizations" THEN Repeat([prestigious |-> FALSE], text.ner[c])
            ELSE Items(text.ner[c])]

\* _extract_entities: the seven lists, all empty when the spaCy model is not
\* loaded; the technology keywords are scanned after the named entities
extract_entities(text, nlp) ==
    [c \in EntityCategories |->
        IF ~nlp THEN <<>>
        ELSE IF c = "technologies" THEN Items(text.technologies)
        ELSE IF c = "organizations" THEN Repeat([prestigious |-> FALSE], text.ner[c])
        ELSE Items(text.ner[c])]

\* match.group(2).lower()
lower_case(unit) ==
    CASE unit = "K" -> "k"
      [] unit = "M" -> "m"
      [] unit = "B" -> "b"
      [] OTHER -> unit

\* the matches of the patterns of one family as the entries the extractor appends
Metrics(type, matches) ==
    [i \in 1..Len(matches) |->
        [type |-> type, amount |-> matches[i].amount, unit |-> lower_case(matches[i].unit)]]

\* the entries the extractor appends with the unit as it is written in the text
MetricsAsWritten(type, matches) ==
    [i \in 1..Len(matches) |->
        [type |-> type, amount |-> matches[i].amount, unit |-> matches[i].unit]]

\* _extract_financial_metrics with match.group(2) not lower-cased
extract_financial_metrics_as_written(text) ==
    LET found == MetricsAsWritten("revenue", text.revenue)
                     \o MetricsAsWritten("funding", text.funding)
                     \o MetricsAsWritten("valuation", text.valuation)
        failed == First({i \in DOMAIN found : found[i].amount = Unparsable})
        appended == IF failed = 0 THEN found ELSE SubSeq(found, 1, failed - 1)
        Revenue(metric) == metric.type = "revenue"
        Funding(metric) == metric.type = "funding"
        Valuation(metric) == metric.type = "valuation"
    IN  [revenue_metrics |-> SelectSeq(appended, Revenue),
         funding_metrics |-> SelectSeq(appended, Funding),
         profitability_metrics |-> <<>>,
         growth_metrics |-> <<>>,
         valuation_metrics |-> SelectSeq(appended, Valuation)]

\* _extract_financial_metrics: one entry for each match of a revenue pattern, then
\* of a funding pattern, then of a valuation pattern, in this order; float() of
\* a match that is no number (Unparsable) raises, and the except branch returns
\* the entries appended until then; no pattern fills the two other lists
extract_financial_metrics(text) ==
    LET found == Metrics("revenue", text.revenue) \o Metrics("funding", text.funding)
                     \o Metrics("valuation", text.valuation)
        failed == First({i \in DOMAIN found : found[i].amount = Unparsable})
        appended == IF failed = 0 THEN found ELSE SubSeq(found, 1, failed - 1)
        Revenue(metric) == metric.type = "revenue"
        Funding(metric) == metric.type = "funding"
        Valuation(metric) == metric.type = "valuation"
    IN  [revenue_metrics |-> SelectSeq(appended, Revenue),
         funding_metrics |-> SelectSeq(appended, Funding),
         profitability_metrics |-> <<>>,
         growth_metrics |-> <<>>,
         valuation_metrics |-> SelectSeq(appended, Valuation)]

\* _extract_business_insights: the first business model and revenue model with
\* a keyword in the text, one target_market entry for each indicator found
extract_business_insights(text) ==
    [business_model |-> text.business_model,
     revenue_model |-> text.revenue_model,
     target_market |-> Items(text.target_market),
     value_proposition |-> <<>>,
     competitive_advantages |-> <<>>]

\* _extract_market_information
extract_market_information(text) ==
    [market_size |-> text.market_size,
     competitors |-> Items(text.competitors),
     market_trends |-> <<>>,
     opportunities |-> <<>>]

\* _extract_team_information
extract_team_information(text) ==
    [founders |-> Repeat([experience |-> FALSE], text.founders),
     key_personnel |-> <<>>,
     team_size |-> text.team_size,
     experience_highlights |-> <<>>]

\* the same with every risk recorded as high
identify_risk_factors_high(text) ==
    [i \in 1..Len(text.risk_keywords) |->
        [category |-> text.risk_keywords[i], severity |-> "high"]]

\* _identify_risk_factors: one medium risk for each keyword found
identify_risk_factors(text) ==
    [i \in 1..Len(text.risk_keywords) |->
        [category |-> text.risk_keywords[i], severity |-> "medium"]]

\* _analyze_sentiment
analyze_sentiment(text) ==
    LET positive_ratio == IF text.words > 0 THEN Frac(text.positive, text.words) ELSE Float(0)
        negative_ratio == IF text.words > 0 THEN Frac(text.negative, text.words) ELSE Float(0)
    IN  IF ~Leq(positive_ratio, negative_ratio)
        THEN [sentiment |-> "positive",
              confidence |-> min(Mul(positive_ratio, Float(10)), Float(1))]
        ELSE IF ~Leq(negative_ratio, positive_ratio)
        THEN [sentiment |-> "negative",
              confidence |-> min(Mul(negative_ratio, Float(10)), Float(1))]
        ELSE [sentiment |-> "neutral", confidence |-> <<1, 2>>]

\* document_types of _classify_document_type: the types in the order of the
\* dictionary, each with the number of its keywords
document_types ==
    <<[type |-> "pitch_deck", keywords |-> 5], [type |-> "business_plan", keywords |-> 4],
      [type |-> "financial_model", keywords |-> 4],
      [type |-> "market_analysis", keywords |-> 3],
      [type |-> "technical_document", keywords |-> 4]>>

\* _classify_document_type (nlp_processor.py:592-622): the score of a type is
\* the share of its keywords found in the text; the result is the first type
\* with the highest score, general when no keyword is found
classify_document_type(text) ==
    LET score(i) == Frac(text.type_keywords[document_types[i].type],
                         document_types[i].keywords)
        scored == {i \in DOMAIN document_types :
                      text.type_keywords[document_types[i].type] > 0}
        best_type == First({i \in scored : \A j \in scored : Leq(score(j), score(i))})
    IN  IF scored # {}
        THEN [document_type |-> document_types[best_type].type,
              confidence |-> score(best_type)]
        ELSE [document_type |-> "general", confidence |-> <<1, 2>>]

\* number of entries of the lists of a dictionary of lists
RECURSIVE total(_, _)
total(lists, keys) ==
    IF keys = {} THEN 0
    ELSE LET k == CHOOSE k \in keys : TRUE
         IN  Len(lists[k]) + total(lists, keys \ {k})

\* the mean of the terms, and 0 instead of the base confidence when there is none
calculate_overall_confidence_no_base(entities, financial_metrics, business_insights) ==
    LET total_entities == total(entities, DOMAIN entities)
        total_financial == total(financial_metrics, DOMAIN financial_metrics)
        \* a value that is neither None nor an empty list
        Found(k) == IF k \in {"business_model", "revenue_model"}
                    THEN business_insights[k] # "None"
                    ELSE business_insights[k] # <<>>
        insights_found == Cardinality({k \in DOMAIN business_insights : Found(k)})
        confidence_factors ==
            (IF total_entities > 0 THEN <<min(Frac(total_entities, 10), Float(1))>> ELSE <<>>)
            \o (IF total_financial > 0 THEN <<min(Frac(total_financial, 5), Float(1))>> ELSE <<>>)
            \o (IF insights_found > 0 THEN <<min(Frac(insights_found, 3), Float(1))>> ELSE <<>>)
    IN  IF confidence_factors = <<>> THEN Float(0)
        ELSE Div(sum(confidence_factors), Len(confidence_factors))

\* _calculate_overall_confidence (nlp_processor.py:568-590)
calculate_overall_confidence(entities, financial_metrics, business_insights) ==
    LET total_entities == total(entities, DOMAIN entities)
        total_financial == total(financial_metrics, DOMAIN financial_metrics)
        \* a value that is neither None nor an empty list
        Found(k) == IF k \in {"business_model", "revenue_model"}
                    THEN business_insights[k] # "None"
                    ELSE business_insights[k] # <<>>
        insights_found == Cardinality({k \in DOMAIN business_insights : Found(k)})
        confidence_factors ==
            (IF total_entities > 0 THEN <<min(Frac(total_entities, 10), Float(1))>> ELSE <<>>)
            \o (IF total_financial > 0 THEN <<min(Frac(total_financial, 5), Float(1))>> ELSE <<>>)
            \o (IF insights_found > 0 THEN <<min(Frac(insights_found, 3), Float(1))>> ELSE <<>>)
    IN  IF confidence_factors = <<>> THEN <<3, 10>>
        ELSE Div(sum(confidence_factors), Len(confidence_factors))

\* _empty_analysis_result (nlp_processor.py:624-686)
empty_analysis_result ==
    [text_analysis |-> [word_count |-> 0, language |-> "en"],
     entities |-> [c \in EntityCategories |-> <<>>],
     financial_metrics |-> [c \in FinancialCategories |-> <<>>],
     business_insights |-> [business_model |-> "None", revenue_model |-> "None",
                            target_market |-> <<>>, value_proposition |-> <<>>,
                            competitive_advantages |-> <<>>],
     market_analysis |-> [market_size |-> <<>>, competitors |-> <<>>,
                          market_trends |-> <<>>, opportunities |-> <<>>],
     team_information |-> [founders |-> <<>>, key_personnel |-> <<>>,
                           team_size |-> None, experience_highlights |-> <<>>],
     risk_factors |-> <<>>,
     sentiment |-> [sentiment |-> "neutral", confidence |-> <<1, 2>>],
     document_classification |-> [document_type |-> "general", confidence |-> <<1, 2>>],
     key_topics |-> <<>>,
     confidence_score |-> Float(0)]

\* the body of analyze_text after the test for an empty text
analysis(text, nlp) ==
    LET entities == extract_entities(text, nlp)
        financial_metrics == extract_financial_metrics(text)
        business_insights == extract_business_insights(text)
    IN  [text_analysis |-> [word_count |-> text.words, language |-> "en"],
         entities |-> entities,
         financial_metrics |-> financial_metrics,
         business_insights |-> business_insights,
         market_analysis |-> extract_market_information(text),
         team_information |-> extract_team_information(text),
         risk_factors |-> identify_risk_factors(text),
         sentiment |-> analyze_sentiment(text),
         document_classification |-> classify_document_type(text),
         key_topics |-> text.key_topics,
         confidence_score |->
             calculate_overall_confidence(entities, financial_metrics, business_insights)]

\* analyze_text without the test for an empty text
analyze_text_unguarded(text, nlp) == analysis(text, nlp)

\* analyze_text (nlp_processor.py:95-151): the empty result for an empty or
\* whitespace-only text, the analysis of the preprocessed text otherwise
analyze_text(text, nlp) ==
    IF text.blank THEN empty_analysis_result ELSE analysis(text, nlp)

\* the named-entity categories: every key of entities but technologies
NerCategories == EntityCategories \ {"technologies"}

\* a text in which no pattern and no keyword is found
NoFindings ==
    [blank |-> FALSE, length |-> 40, words |-> 12,
     ner |-> [c \in NerCategories |-> 0], technologies |-> 0,
     revenue |-> <<>>, funding |-> <<>>, valuation |-> <<>>,
     business_model |-> "None", revenue_model |-> "None", target_market |-> 0,
     market_size |-> <<>>, competitors |-> 0, founders |-> 0, team_size |-> None,
     risk_keywords |-> <<>>, key_topics |-> <<>>, positive |-> 0, negative |-> 0,
     type_keywords |-> [pitch_deck |-> 0, business_plan |-> 0, financial_model |-> 0,
                        market_analysis |-> 0, technical_document |-> 0],
     phrases |-> {}]

\* the empty text (length 0) and the texts made of whitespace
BlankText(length) == [NoFindings EXCEPT !.blank = TRUE, !.length = length, !.words = 0]

\* numbers of named entities: none, one of one category, two of every category
NerSamples ==
    {[c \in NerCategories |-> 0], [c \in NerCategories |-> 2]}
    \cup {[c \in NerCategories |-> IF c = k THEN 1 ELSE 0] : k \in NerCategories}

\* the texts that differ from NoFindings in what the confidence counts
CountedText(ner, technologies, revenue, funding, valuation, business_model, revenue_model, target_market) ==
    [NoFindings EXCEPT !.ner = ner, !.technologies = technologies,
                       !.revenue = revenue, !.funding = funding, !.valuation = valuation,
                       !.business_model = business_model, !.revenue_model = revenue_model,
                       !.target_market = target_market]

\* a match of a financial pattern: the number and the unit as they are written
Match == [amount |-> 2, unit |-> "m"]

\* number of matches of the revenue patterns, and of the funding patterns, in the
\* texts whose amounts are under study
MaxMatches == 2

\* matches of the revenue patterns: $2,000,000, $2m, and a match made of
\* thousands separators only, which float() does not parse
RevenueMatches ==
    {[amount |-> 2000000, unit |-> ""], [amount |-> 2, unit |-> "m"],
     [amount |-> Unparsable, unit |-> ""]}

\* matches of the funding patterns: $6M, $2m, and one that is no number
FundingMatches ==
    {[amount |-> 6, unit |-> "M"], [amount |-> 2, unit |-> "m"],
     [amount |-> Unparsable, unit |-> ""]}

ValuationMatches == {[amount |-> 20, unit |-> "m"]}

\* the texts that differ from NoFindings in the financial matches and in the
\* founders, and in what else a text with such sentences holds: "Raised" has the
\* technology keyword ai, "Revenue" a keyword of the business topic, "Founders" one
\* of the team topic
FinancialText(revenue, funding, valuation, founders) ==
    [NoFindings EXCEPT
        !.revenue = revenue, !.funding = funding, !.valuation = valuation,
        !.founders = founders,
        !.technologies = IF funding # <<>> THEN 1 ELSE 0,
        !.key_topics =
            (IF founders > 0 THEN <<[topic |-> "team", relevance_score |-> <<1, 5>>]>>
             ELSE <<>>)
            \o (IF revenue # <<>>
                THEN <<[topic |-> "business", relevance_score |-> <<1, 6>>]>> ELSE <<>>)
            \o (IF funding # <<>>
                THEN <<[topic |-> "technology",
                        relevance_score |-> Frac(1, TechnologyKeywords)]>>
                ELSE <<>>)]

\* the texts that differ from NoFindings in the other findings
OtherText(market_size, competitors, founders, team_size, risk_keywords, key_topics, positive, negative, words, phrases) ==
    [NoFindings EXCEPT !.market_size = market_size, !.competitors = competitors,
                       !.founders = founders, !.team_size = team_size,
                       !.risk_keywords = risk_keywords, !.key_topics = key_topics,
                       !.positive = positive, !.negative = negative, !.words = words,
                       !.phrases = phrases]

\* the texts that differ from NoFindings in the keywords of the document types
\* and in the revenue model
TypedText(pitch_deck, financial_model, technical_document, revenue_model) ==
    [NoFindings EXCEPT !.type_keywords.pitch_deck = pitch_deck,
                       !.type_keywords.financial_model = financial_model,
                       !.type_keywords.technical_document = technical_document,
                       !.revenue_model = revenue_model]

\* a text handed to analyze_text by a processor whose spaCy model is loaded or not
Submitted(text, nlp) == [stage |-> "text", text |-> text, nlp |-> nlp]

InitAnalyze ==
    /\ doc = NewDocument("None")
    /\ uploaded = FALSE
    /\ file_exists = FALSE
    /\ runs = [r \in Runs |-> NoTask]
    /\ nruns = 0
    /\ now = 1
    /\ response = 0
    /\ overlapped = FALSE
    /\ \E nlp \in BOOLEAN :
        \/ \E length \in {0, 1, 3} : call = Submitted(BlankText(length), nlp)
        \/ \E ner \in NerSamples, t \in {0, 1, TechKeywords},
              r \in 0..MaxMetrics, f \in 0..MaxMetrics, v \in 0..MaxMetrics,
              b \in {"None", "saas"}, m \in {"None", "subscription"}, g \in {0, 1} :
                call = Submitted(CountedText(ner, t, Repeat(Match, r), Repeat(Match, f),
                                             Repeat(Match, v), b, m, g), nlp)
        \/ \E r \in SeqsUpTo(RevenueMatches, MaxMatches),
              f \in SeqsUpTo(FundingMatches, MaxMatches),
              v \in SeqsUpTo(ValuationMatches, 1), n \in {0, 1, 2} :
                call = Submitted(FinancialText(r, f, v, n), nlp)
        \/ \E z \in {<<>>, <<[amount |-> 50, unit |-> "m"]>>}, c \in {0, 2},
              f \in {0, 1}, n \in {None, 5},
              k \in {<<>>, <<"financial">>, <<"market", "team">>},
              o \in {<<>>, <<[topic |-> "technology", relevance_score |-> Frac(1, TechnologyKeywords)]>>},
              p \in 0..2, q \in 0..2, w \in {0, 12}, x \in {{}, {"mvp"}} :
                call = Submitted(OtherText(z, c, f, n, k, o, p, q, w, x), nlp)
        \/ \E p \in 0..2, f \in 0..2, t \in 0..1, m \in {"None", "subscription"} :
                call = Submitted(TypedText(p, f, t, m), nlp)

\* analyze_text returns its result, which goes to calculate_investment_score with
\* the content of the document
analyze ==
    /\ call.stage = "text"
    /\ call' = [stage |-> "called", text |-> call.text, nlp |-> call.nlp,
                nlp_analysis |-> analyze_text(call.text, call.nlp),
                document_content |-> [document_type |-> "", full_text |-> call.text.phrases]]
    /\ UNCHANGED <<doc, uploaded, file_exists, runs, nruns, now, response, overlapped>>

NextAnalyze == analyze \/ calculate_investment_score

SpecAnalyze == InitAnalyze /\ [][NextAnalyze]_vars

----------------------------------------------------------------------------
(* Text quality: DocumentProcessor._calculate_text_quality                     *)
(* (document_processor.py:474-494).  A text is a sequence of characters; a     *)
(* character is a letter, whitespace, or a digit or symbol.                    *)

\* the longest text
MaxChars == 7

\* a letter (isalpha), a blank (isspace), a character that is neither
Chars == {"a", " ", "1"}

Texts == SeqsUpTo(Chars, MaxChars)

\* len(text.strip()) == 0, which holds of the empty text too
stripped_empty(text) == \A i \in DOMAIN text : text[i] = " "

\* len(text.split()): the runs of characters that are not whitespace
word_count(text) ==
    Cardinality({i \in DOMAIN text : text[i] # " " /\ (i = 1 \/ text[i - 1] = " ")})

\* sum(1 for c in text if c.isalpha() or c.isspace())
readable_chars(text) == Cardinality({i \in DOMAIN text : text[i] \in {"a", " "}})

\* the weighted sum without the two caps at 1.0
calculate_text_quality_uncapped(text) ==
    IF stripped_empty(text) THEN Float(0)
    ELSE LET char_count == Len(text)
             readability_ratio == IF char_count > 0
                                  THEN Frac(readable_chars(text), char_count) ELSE Float(0)
             avg_word_length == IF word_count(text) > 0
                                THEN Frac(char_count, word_count(text)) ELSE Float(0)
         IN  Add(Mul(readability_ratio, <<3, 5>>), Mul(Div(avg_word_length, 6), <<2, 5>>))

\* the weighted sum without the test for an empty text
calculate_text_quality_unguarded(text) ==
    LET char_count == Len(text)
        readability_ratio == IF char_count > 0
                             THEN Frac(readable_chars(text), char_count) ELSE Float(0)
        avg_word_length == IF word_count(text) > 0
                           THEN Frac(char_count, word_count(text)) ELSE Float(0)
        word_length_score == min(Div(avg_word_length, 6), Float(1))
        quality_score == Add(Mul(readability_ratio, <<3, 5>>),
                             Mul(word_length_score, <<2, 5>>))
    IN  min(quality_score, Float(1))

\* _calculate_text_quality
calculate_text_quality(text) ==
    IF stripped_empty(text) THEN Float(0)
    ELSE LET char_count == Len(text)
             readability_ratio == IF char_count > 0
                                  THEN Frac(readable_chars(text), char_count) ELSE Float(0)
             avg_word_length == IF word_count(text) > 0
                                THEN Frac(char_count, word_count(text)) ELSE Float(0)
             word_length_score == min(Div(avg_word_length, 6), Float(1))
             quality_score == Add(Mul(readability_ratio, <<3, 5>>),
                                  Mul(word_length_score, <<2, 5>>))
         IN  min(quality_score, Float(1))

InitQuality ==
    /\ doc = NewDocument("None")
    /\ uploaded = FALSE
    /\ file_exists = FALSE
    /\ runs = [r \in Runs |-> NoTask]
    /\ nruns = 0
    /\ now = 1
    /\ response = 0
    /\ overlapped = FALSE
    /\ \E text \in Texts : call = [stage |-> "extracted", text |-> text]

text_quality ==
    /\ call.stage = "extracted"
    /\ call' = [stage |-> "rated", text |-> call.text,
                quality |-> calculate_text_quality(call.text)]
    /\ UNCHANGED <<doc, uploaded, file_exists, runs, nruns, now, response, overlapped>>

NextQuality == text_quality

SpecQuality == InitQuality /\ [][NextQuality]_vars

----------------------------------------------------------------------------
(* Claims about the document record and its runs *)

Terminal == {"completed", "failed"}

\* the step is an accepted reprocess request: it adds a task to a document that
\* has one already
ReprocessAccepted == nruns >= 1 /\ nruns' = nruns + 1

\* the step is the last one of run r
RunEnds(r) == runs[r].pc # "done" /\ runs'[r].pc = "done"

\* the status moves pending -> processing -> completed | failed, and a terminal
\* status is left only by the reset of an accepted reprocess request
StatusStep(s, t) ==
    \/ s = t
    \/ s = "pending" /\ t = "processing"
    \/ s = "processing" /\ t \in Terminal
    \/ s \in Terminal /\ t = "pending" /\ ReprocessAccepted

C2_FailedHasNoDerivedOutput ==
    (uploaded /\ doc.processing_status = "failed")
        => \A c \in ResultColumns : doc[c] = None

\* the record right after the reset that C3 claims: pending, nothing else set
ResetComplete(d) ==
    /\ d.processing_status = "pending"
    /\ \A c \in ResultColumns : d[c] = None
    /\ d.processing_error = NoError
    /\ d.processing_started_at = None
    /\ d.processing_completed_at = None

\* C3 (as claimed): right after an accepted reprocess request the status is
\* pending and every result column, the error and both timestamps are unset,
\* and resetting twice gives the same record as resetting once.
C3_ResetClearsEverything ==
    [][ReprocessAccepted
          => /\ ResetComplete(doc')
             /\ ResetValues(ResetValues(doc)) = ResetValues(doc)]_vars

\* the stage whose failure produced the error text e
StageOfError(e) ==
    CASE e = "Text analysis failed" -> "analysis"
      [] e = "Score calculation failed" -> "scoring"
      [] OTHER -> "extraction"

\* the first n stages of the pipeline
StagePrefix(n) == SubSeq(StageOrder, 1, n)

C5_RunEndsTerminal ==
    [][\A r \in Runs : RunEnds(r) => doc'.processing_status \in Terminal]_vars

\* the inputs for which C6 says extraction fails
ExtractionMustFail(exists, file_type, parser) ==
    \/ ~exists
    \/ file_type \notin DOMAIN supported_formats
    \/ parser = "parser_error"

----------------------------------------------------------------------------
(* Claims about the scoring engine *)

Returned == call.stage = "returned"

\* the four dimension scores of a ScoreResult
Reported(result) ==
    [financial |-> result.financial_score, market |-> result.market_score,
     team |-> result.team_score, product |-> result.product_score]

Between(lo, x, hi) == Leq(lo, x) /\ Leq(x, hi)

\* x and y differ by at most d
Near(x, y, d) == Leq(x, Add(y, d)) /\ Leq(y, Add(x, d))

\* 0.30 * financial + 0.25 * market + 0.25 * team + 0.20 * product
WeightedSum(scores) ==
    Add(Add(Mul(<<3, 10>>, scores.financial), Mul(<<1, 4>>, scores.market)),
        Add(Mul(<<1, 4>>, scores.team), Mul(<<1, 5>>, scores.product)))

\* C7: whatever signals the analysis carries, each of the four dimension
\* scores of the ScoreResult lies in [0, 100] and each raw score, before the
\* risk adjustment, lies in [50, 100]
C7_DimensionScoresInRange ==
    Returned =>
        \A d \in Dimensions :
            /\ Between(Float(50), call.values.raw[d], Float(100))
            /\ Between(Float(0), Reported(call.result)[d], Float(100))

\* C7 witness: a call whose financial bonuses add up to more than 50 points
\* and are clamped, next to a dimension without any signal
C7_Witness ==
    /\ Returned
    /\ Len(call.nlp_analysis.financial_metrics.funding_metrics) = 2
    /\ call.values.raw.financial = Float(100)
    /\ call.values.raw.team = Float(50)
    /\ call.result.financial_score = Float(85)

\* C8 as stated: the overall score of a ScoreResult is the weighted sum of the
\* four dimension scores of that ScoreResult, the weights sum to 1, and the
\* overall score lies between the smallest and the largest of them and in
\* [0, 100]
C8_OverallIsWeightedSumOfReported ==
    Returned =>
        LET reported == Reported(call.result)
            overall == call.result.overall_score
        IN  /\ overall = WeightedSum(reported)
            /\ sum(<<weights.financial, weights.market, weights.team, weights.product>>)
                 = Float(1)
            /\ \E d \in Dimensions : Leq(reported[d], overall)
            /\ \E d \in Dimensions : Leq(overall, reported[d])
            /\ Between(Float(0), overall, Float(100))

\* C8 amended: the overall score is the weighted sum of the four adjusted
\* scores before they are rounded, rounded to two decimals; it is within 0.01
\* of the weighted sum of the four reported scores, at most 0.01 below the
\* smallest and at most 0.01 above the largest of them, and in [0, 100]; the
\* weights sum to 1
C8_OverallWithinOneHundredth ==
    Returned =>
        LET reported == Reported(call.result)
            overall == call.result.overall_score
        IN  /\ Near(overall, WeightedSum(call.values.adjusted), <<1, 200>>)
            /\ overall[2] \in {1, 2, 4, 5, 10, 20, 25, 50, 100}
            /\ Near(overall, WeightedSum(reported), <<1, 100>>)
            /\ sum(<<weights.financial, weights.market, weights.team, weights.product>>)
                 = Float(1)
            /\ \E d \in Dimensions : Leq(reported[d], Add(overall, <<1, 100>>))
            /\ \E d \in Dimensions : Leq(overall, Add(reported[d], <<1, 100>>))
            /\ Between(Float(0), overall, Float(100))

\* C8 witness: a result whose four dimension scores are all 56.23 and whose
\* overall score is 56.22
C8_Witness ==
    /\ Returned
    /\ \A d \in Dimensions : Reported(call.result)[d] = <<5623, 100>>
    /\ call.result.overall_score = <<2811, 50>>

\* C9: the risk adjustment is 1 - (risk_score / 100) * 0.3 and lies in
\* [0.7, 1.0]; the one factor multiplies all four raw scores, so that each
\* reported dimension score is at least 70% and at most 100% of its raw score
C9_RiskAdjustment ==
    Returned =>
        LET adjustment == call.values.risk_adjustment
            reported == Reported(call.result)
        IN  /\ Add(adjustment, Mul(call.values.risk_score, <<3, 1000>>)) = Float(1)
            /\ Between(<<7, 10>>, adjustment, Float(1))
            /\ \A d \in Dimensions :
                /\ Near(reported[d], Mul(call.values.raw[d], adjustment), <<1, 200>>)
                /\ Between(Mul(<<7, 10>>, call.values.raw[d]), reported[d],
                           call.values.raw[d])

\* C9 witness: two critical risks in two categories give a risk score of 65
\* and a factor of 0.805, applied to raw scores of 100
C9_Witness ==
    /\ Returned
    /\ call.values.risk_score = Float(65)
    /\ call.values.risk_adjustment = <<161, 200>>
    /\ \A d \in Dimensions : Reported(call.result)[d] = <<161, 2>>

\* C10: the confidence interval of a ScoreResult satisfies
\* 0 <= lower <= overall_score <= upper <= 100
C10_ConfidenceInterval ==
    Returned =>
        LET lower == call.result.confidence_interval[1]
            upper == call.result.confidence_interval[2]
        IN  /\ Leq(Float(0), lower)
            /\ Leq(lower, call.result.overall_score)
            /\ Leq(call.result.overall_score, upper)
            /\ Leq(upper, Float(100))

\* C10 witness: an overall score of 85 with a confidence of 0: the margin is
\* 20 and the upper bound is clamped to 100
C10_Witness ==
    /\ Returned
    /\ call.nlp_analysis.confidence_score = Float(0)
    /\ call.result.overall_score = Float(85)
    /\ call.result.confidence_interval = <<Float(65), Float(100)>>

\* margin = (1 - confidence) * 20 of the call
Margin == Mul(Sub(Float(1), call.nlp_analysis.confidence_score), Float(20))

\* the bounds of the interval that are not clamped: 0 <= score - margin for
\* the lower one, score + margin <= 100 for the upper one
LowerUnclamped == Leq(Margin, call.values.overall_score)

UpperUnclamped == Leq(Add(call.values.overall_score, Margin), Float(100))

Unclamped == LowerUnclamped /\ UpperUnclamped

\* C11 as stated: the confidence interval of every ScoreResult is symmetric
\* around its overall score: overall_score - lower = upper - overall_score
C11_IntervalSymmetric ==
    Returned =>
        Sub(call.result.overall_score, call.result.confidence_interval[1])
            = Sub(call.result.confidence_interval[2], call.result.overall_score)

\* C11 amended: the interval is symmetric up to the roundings as long as no
\* bound is clamped: a bound that is not clamped lies at the margin
\* (1 - confidence) * 20 from the overall score, within 0.01, so that two such
\* bounds are at distances within 0.02 of each other; a clamped bound is 0
\* (lower) or 100 (upper)
C11_IntervalSymmetricUnlessClamped ==
    Returned =>
        LET below == Sub(call.result.overall_score, call.result.confidence_interval[1])
            above == Sub(call.result.confidence_interval[2], call.result.overall_score)
        IN  /\ IF LowerUnclamped
               THEN Near(below, Margin, <<1, 100>>)
               ELSE call.result.confidence_interval[1] = Float(0)
            /\ IF UpperUnclamped
               THEN Near(above, Margin, <<1, 100>>)
               ELSE call.result.confidence_interval[2] = Float(100)
            /\ Unclamped => Near(below, above, <<1, 50>>)

\* C11 witness: an overall score of 42.5 with confidence 0: no bound is
\* clamped and the interval is (22.5, 62.5)
C11_Witness ==
    /\ Returned
    /\ Unclamped
    /\ call.result.overall_score = <<85, 2>>
    /\ call.result.confidence_interval = <<(<<45, 2>>), (<<125, 2>>)>>

\* the threshold ladder of the claims: strong_buy from 85, buy from 70, hold
\* from 50, pass below
Ladder(score) ==
    CASE Leq(Float(85), score) -> "strong_buy"
      [] Leq(Float(70), score) /\ ~Leq(Float(85), score) -> "buy"
      [] Leq(Float(50), score) /\ ~Leq(Float(70), score) -> "hold"
      [] ~Leq(Float(50), score) -> "pass"

\* C12: the recommendation of every ScoreResult is the threshold ladder applied
\* to the overall_score of that ScoreResult: strong_buy iff it is at least 85,
\* buy iff in [70, 85), hold iff in [50, 70), pass iff below 50
C12_RecommendationOfReportedScore ==
    Returned => call.result.recommendation = Ladder(call.result.overall_score)

\* the recommendation function has answered for the score given in hundredths
Recommends(hundredths, tier) ==
    (call.stage = "recommended" /\ call.overall_score = Frac(hundredths, 100))
        => call.recommendation = tier

\* C13 as stated: at the thresholds the recommendation function returns
\* 84.99 -> hold, 85.0 -> strong_buy, 69.99 -> hold, 70.0 -> buy,
\* 49.99 -> pass, 50.0 -> hold
C13_BoundariesAsStated ==
    /\ Recommends(8499, "hold")
    /\ Recommends(8500, "strong_buy")
    /\ Recommends(6999, "hold")
    /\ Recommends(7000, "buy")
    /\ Recommends(4999, "pass")
    /\ Recommends(5000, "hold")

\* C13 amended: at the thresholds the recommendation function returns
\* 84.99 -> buy, 85.0 -> strong_buy, 69.99 -> hold, 70.0 -> buy,
\* 49.99 -> pass, 50.0 -> hold
C13_Boundaries ==
    /\ Recommends(8499, "buy")
    /\ Recommends(8500, "strong_buy")
    /\ Recommends(6999, "hold")
    /\ Recommends(7000, "buy")
    /\ Recommends(4999, "pass")
    /\ Recommends(5000, "hold")

\* C13 witness: the function has answered buy for 84.99
C13_Witness ==
    /\ call.stage = "recommended"
    /\ call.overall_score = Frac(8499, 100)
    /\ call.recommendation = "buy"

\* the canonical empty result: every container empty, no model, no team size,
\* sentiment neutral with confidence 0.5, confidence_score 0.0
Canonical(a) ==
    /\ \A c \in EntityCategories : a.entities[c] = <<>>
    /\ \A c \in FinancialCategories : a.financial_metrics[c] = <<>>
    /\ a.business_insights = [business_model |-> "None", revenue_model |-> "None",
                              target_market |-> <<>>, value_proposition |-> <<>>,
                              competitive_advantages |-> <<>>]
    /\ \A k \in DOMAIN a.market_analysis : a.market_analysis[k] = <<>>
    /\ a.team_information = [founders |-> <<>>, key_personnel |-> <<>>,
                             team_size |-> None, experience_highlights |-> <<>>]
    /\ a.risk_factors = <<>>
    /\ a.key_topics = <<>>
    /\ a.sentiment.sentiment = "neutral"
    /\ a.sentiment.confidence = <<1, 2>>
    /\ a.confidence_score = Float(0)

Analyzed == call.stage = "called" /\ "text" \in DOMAIN call

\* C14: the analysis of an empty or whitespace-only text is the canonical empty
\* result, and scoring that result with empty extracted content gives
\* risk_score 50, adjustment 0.85, four dimension scores of 42.5, overall_score
\* 42.5 and the recommendation pass
C14_EmptyTextScenario ==
    /\ (Analyzed /\ call.text.blank) => Canonical(call.nlp_analysis)
    /\ (Returned /\ Canonical(call.nlp_analysis) /\ call.document_content.full_text = {}) =>
          /\ call.result.risk_score = Float(50)
          /\ call.values.risk_adjustment = <<17, 20>>
          /\ \A d \in Dimensions : Reported(call.result)[d] = <<85, 2>>
          /\ call.result.overall_score = <<85, 2>>
          /\ call.result.recommendation = "pass"

\* C14 witness: the canonical empty result has been scored: 42.5 and pass
C14_Witness ==
    /\ Returned
    /\ Canonical(call.nlp_analysis)
    /\ call.document_content.full_text = {}
    /\ call.result.overall_score = <<85, 2>>
    /\ call.result.recommendation = "pass"

Rated == call.stage = "rated"

\* C15: the quality score of every text lies in [0, 1], and the quality of the
\* empty text is 0
C15_QualityInRange ==
    Rated =>
        /\ Between(Float(0), call.quality, Float(1))
        /\ call.text = <<>> => call.quality = Float(0)

\* C15 witness: a word of seven letters has the quality 1, the cap of the
\* word length score
C15_Witness ==
    /\ Rated
    /\ call.text = Repeat("a", 7)
    /\ call.quality = Float(1)

\* min(0.6 * r + 0.4 * w, 1.0) with r the share of the letters and blanks among
\* the C characters (0 if C = 0) and w = min((C / W) / 6, 1.0) (0 if W = 0)
QualityFormula(text) ==
    LET C == Len(text)
        W == word_count(text)
        r == IF C = 0 THEN Float(0) ELSE Frac(readable_chars(text), C)
        w == IF W = 0 THEN Float(0) ELSE min(Div(Frac(C, W), 6), Float(1))
    IN  min(Add(Mul(<<3, 5>>, r), Mul(<<2, 5>>, w)), Float(1))

\* C16 as stated: the quality score of every text is the formula, the texts made
\* only of whitespace (C > 0, W = 0) included
C16_QualityIsFormula ==
    Rated => call.quality = QualityFormula(call.text)

\* C16 amended: the quality score of a text that has a character other than
\* whitespace is the formula; the quality of a text made only of whitespace
\* (C > 0, W = 0), like that of the empty text, is 0
C16_QualityIsFormulaUnlessBlank ==
    Rated =>
        IF word_count(call.text) = 0 THEN call.quality = Float(0)
        ELSE call.quality = QualityFormula(call.text)

\* C16 witness: "a1 a" has 4 characters, 3 of them readable, and 2 words:
\* 0.6 * 3/4 + 0.4 * (2/6) = 7/12
C16_Witness ==
    /\ Rated
    /\ call.text = <<"a", "1", " ", "a">>
    /\ call.quality = <<7, 12>>

\* C17: the result of analyze_text, for an empty or whitespace-only text as for
\* every other text, has the seven entity keys, the five financial-metric keys
\* and the fields business_insights, market_analysis, team_information,
\* risk_factors, sentiment, document_classification, key_topics and
\* confidence_score
C17_AllKeysPresent ==
    Analyzed =>
        /\ DOMAIN call.nlp_analysis.entities = EntityCategories
        /\ DOMAIN call.nlp_analysis.financial_metrics = FinancialCategories
        /\ AnalysisFields \subseteq DOMAIN call.nlp_analysis

\* C17 witness: a text with technology keywords analysed without the spaCy
\* model: the seven entity keys are there, each with an empty list
C17_Witness ==
    /\ Analyzed
    /\ ~call.nlp
    /\ ~call.text.blank
    /\ call.text.technologies = TechKeywords
    /\ \A c \in EntityCategories :
          c \in DOMAIN call.nlp_analysis.entities /\ call.nlp_analysis.entities[c] = <<>>

\* the counts the confidence is derived from: the entities, the financial
\* metrics, and the business insights that are set
EntityCount(a) == total(a.entities, DOMAIN a.entities)

FinancialMetricCount(a) == total(a.financial_metrics, DOMAIN a.financial_metrics)

InsightsFound(a) ==
    (IF a.business_insights.business_model # "None" THEN 1 ELSE 0)
    + (IF a.business_insights.revenue_model # "None" THEN 1 ELSE 0)
    + (IF a.business_insights.target_market # <<>> THEN 1 ELSE 0)
    + (IF a.business_insights.value_proposition # <<>> THEN 1 ELSE 0)
    + (IF a.business_insights.competitive_advantages # <<>> THEN 1 ELSE 0)

\* the mean of min(e/10, 1), min(f/5, 1) and min(i/3, 1) over the counts that
\* are not zero, and 0.3 when the three are zero
Aggregate(e, f, i) ==
    LET n == (IF e > 0 THEN 1 ELSE 0) + (IF f > 0 THEN 1 ELSE 0) + (IF i > 0 THEN 1 ELSE 0)
        terms == Add(Add(min(Frac(e, 10), Float(1)), min(Frac(f, 5), Float(1))),
                     min(Frac(i, 3), Float(1)))
    IN  IF n = 0 THEN <<3, 10>> ELSE Div(terms, n)

\* C18 as stated: the confidence_score of every analysis is the aggregate of its
\* three counts (0.3 when they are all zero) and lies in [0, 1]
C18_ConfidenceIsAggregate ==
    Analyzed =>
        /\ call.nlp_analysis.confidence_score =
               Aggregate(EntityCount(call.nlp_analysis),
                         FinancialMetricCount(call.nlp_analysis),
                         InsightsFound(call.nlp_analysis))
        /\ Between(Float(0), call.nlp_analysis.confidence_score, Float(1))

\* C18 amended: the confidence_score of the analysis of a text that is not empty
\* or whitespace-only is the aggregate of its three counts (0.3 when they are
\* all zero); that of the canonical empty result is the fixed 0.0; it lies in
\* [0, 1] in both cases
C18_ConfidenceIsAggregateUnlessBlank ==
    Analyzed =>
        /\ IF call.text.blank
           THEN call.nlp_analysis.confidence_score = Float(0)
           ELSE call.nlp_analysis.confidence_score =
                    Aggregate(EntityCount(call.nlp_analysis),
                              FinancialMetricCount(call.nlp_analysis),
                              InsightsFound(call.nlp_analysis))
        /\ Between(Float(0), call.nlp_analysis.confidence_score, Float(1))

\* C18 witness: 12 named entities (capped at 1), one financial metric (1/5) and
\* no insight: the confidence is the mean 3/5 of the two terms
C18_Witness ==
    /\ Analyzed
    /\ EntityCount(call.nlp_analysis) = 12
    /\ FinancialMetricCount(call.nlp_analysis) = 1
    /\ InsightsFound(call.nlp_analysis) = 0
    /\ call.nlp_analysis.confidence_score = <<3, 5>>

\* the call has the key k of the analysis, the key k of its dictionary g, the
\* key k of the content
Top(k) == k \in DOMAIN call.nlp_analysis

Field(g, k) == Top(g) /\ k \in DOMAIN call.nlp_analysis[g]

Content(k) == k \in DOMAIN call.document_content

Bonus(present, points) == IF present THEN points ELSE 0

\* C19: a call with any subset of the fields of the analysis and of the content
\* missing returns a ScoreResult in which each missing field has only skipped its
\* own bonus: of the signals of PartialBase, revenue data counts 15, the funding
\* round of $2M 20, the financial_model type 10, the market size 15, the two
\* competitors 15, the founder 15, the team of five 15, the value proposition 15,
\* the competitive advantages 15, the MVP 10; the high market risk raises the
\* risk score from 50 to 55; a missing confidence reads as 0.5
C19_MissingFieldsSkipOwnBonus ==
    Returned =>
        /\ call.values.raw.financial =
              Float(50 + Bonus(Field("financial_metrics", "revenue_metrics"), 15)
                       + Bonus(Field("financial_metrics", "funding_metrics"), 20)
                       + Bonus(Content("document_type"), 10))
        /\ call.values.raw.market =
              Float(50 + Bonus(Field("market_analysis", "market_size"), 15)
                       + Bonus(Field("market_analysis", "competitors"), 15))
        /\ call.values.raw.team =
              Float(50 + Bonus(Field("team_information", "founders"), 15)
                       + Bonus(Field("team_information", "team_size"), 15))
        /\ call.values.raw.product =
              Float(50 + Bonus(Field("business_insights", "value_proposition"), 15)
                       + Bonus(Field("business_insights", "competitive_advantages"), 15)
                       + Bonus(Content("full_text"), 10))
        /\ call.result.risk_score = Float(50 + Bonus(Top("risk_factors"), 5))
        /\ Sub(call.values.overall_score, call.values.bounds.lower) =
              Float(10 - Bonus(Top("confidence_score"), 10))
        /\ call.result.recommendation \in {"strong_buy", "buy", "hold", "pass"}

\* C19 witness: the analysis has lost team_information and the content is empty:
\* the team score is the base 50, and revenue, funding, market size and
\* competitors are counted
C19_Witness ==
    /\ Returned
    /\ ~Top("team_information")
    /\ DOMAIN call.document_content = {}
    /\ call.values.raw.team = Float(50)
    /\ call.values.raw.financial = Float(85)
    /\ call.values.raw.market = Float(80)

\* C20: a reprocess request for a stored document is accepted whatever the
\* status of the document, pending and processing included: the request resets
\* the record and adds a task although a run is in flight, nothing rejects it
C20_ReprocessAcceptedInAnyStatus ==
    (uploaded /\ file_exists /\ nruns < MaxRuns) =>
        ENABLED (/\ reprocess_document
                 /\ response' = 200
                 /\ nruns' = nruns + 1
                 /\ runs'[nruns + 1].pc = "queued"
                 /\ doc'.processing_status = "pending")

\* C20 witness: the second run was added while the first was in flight, both
\* have completed, and the first wrote its results over those of the second
C20_Witness ==
    /\ overlapped
    /\ \A r \in {1, 2} : runs[r].pc = "done" /\ runs[r].score_result = r
    /\ doc.processing_status = "completed"
    /\ doc.extracted_content = 1

\* scenario A: "Revenue: $2,000,000. Raised $6M Series A. Founders: Jane Doe, John
\* Smith.": one revenue match, one funding match, one match of a founder pattern
ScenarioA ==
    FinancialText(<<[amount |-> 2000000, unit |-> ""]>>, <<[amount |-> 6, unit |-> "M"]>>,
                  <<>>, 1)

\* the analysis has exactly one revenue metric (2000000, no unit), exactly one
\* funding metric (6, m) and at least one founder
ScenarioAnalysis(a) ==
    /\ a.financial_metrics.revenue_metrics =
          <<[type |-> "revenue", amount |-> 2000000, unit |-> ""]>>
    /\ a.financial_metrics.funding_metrics =
          <<[type |-> "funding", amount |-> 6, unit |-> "m"]>>
    /\ Len(a.team_information.founders) >= 1

\* C21 as stated: the analysis of the text of scenario A has the one revenue
\* metric, the one funding metric and a founder, and the financial_score of the
\* ScoreResult of that analysis is at least 50 + 15 + 10 + 10 + 15
C21_ScenarioAReportedScore ==
    /\ (Analyzed /\ call.text = ScenarioA) => ScenarioAnalysis(call.nlp_analysis)
    /\ (Returned /\ ScenarioAnalysis(call.nlp_analysis)) =>
          Leq(Float(50 + 15 + 10 + 10 + 15), call.result.financial_score)

\* C21 amended: the analysis of the text of scenario A has the one revenue
\* metric, the one funding metric and a founder; the financial score of that
\* analysis before the risk adjustment is 50 + 15 + 10 + 10 + 15 = 100, and the
\* financial_score of the ScoreResult is 100 times the risk adjustment, 85.0
C21_ScenarioARawScore ==
    /\ (Analyzed /\ call.text = ScenarioA) => ScenarioAnalysis(call.nlp_analysis)
    /\ (Returned /\ ScenarioAnalysis(call.nlp_analysis)) =>
          /\ call.values.raw.financial = Float(50 + 15 + 10 + 10 + 15)
          /\ call.values.risk_adjustment = <<17, 20>>
          /\ call.result.financial_score = Float(85)

\* C21 witness: the analysis of scenario A has been scored: 85.0
C21_Witness ==
    /\ Returned
    /\ ScenarioAnalysis(call.nlp_analysis)
    /\ call.nlp_analysis.financial_metrics.valuation_metrics = <<>>
    /\ Len(call.nlp_analysis.team_information.founders) = 1
    /\ call.result.financial_score = Float(85)


\* the severity scores as the specification states them
StatedSeverity == [low |-> 20, medium |-> 50, high |-> 80, critical |-> 95]

\* the sum of the stated severity scores of a list of risk factors
RECURSIVE SeverityTotal(_)
SeverityTotal(risks) ==
    IF risks = <<>> THEN 0
    ELSE StatedSeverity[Head(risks).severity] + SeverityTotal(Tail(risks))

\* the risk factors of a list that belong to one category
InCategory(risks, category) ==
    LET Own(risk) == risk.category = category IN SelectSeq(risks, Own)

\* the average of the stated severity scores of a category's risk factors, 50
\* when it has none
StatedCategoryRisk(risks, category) ==
    LET own == InCategory(risks, category)
    IN  IF own = <<>> THEN Float(50) ELSE Frac(SeverityTotal(own), Len(own))

\* every risk factor of the call carries one of the four severities
StatedSeverities == \A i \in DOMAIN call.nlp_analysis.risk_factors :
                        call.nlp_analysis.risk_factors[i].severity \in DOMAIN StatedSeverity

\* C22: for every list of risk factors (of severity low, medium, high or
\* critical), each of the six category risk scores is the average of the
\* severity scores 20, 50, 80, 95 of the risk factors of that category, or 50
\* when the category has none; the overall risk score is the unweighted mean of
\* the six, and risk_score is that mean rounded to two places; a risk factor of
\* a category outside the six changes no category score
C22_CategoryRiskAverages ==
    (Returned /\ StatedSeverities) =>
        LET risks == call.nlp_analysis.risk_factors
            assessment == call.result.reasoning.risk_assessment
            stated == [i \in DOMAIN risk_categories |->
                          StatedCategoryRisk(risks, risk_categories[i])]
            mean == Div(sum(stated), 6)
        IN  /\ Len(risk_categories) = 6
            /\ assessment.category_risks = stated
            /\ assessment.overall_risk_score = mean
            /\ call.values.risk_score = mean
            /\ Near(call.result.risk_score, mean, <<1, 200>>)

\* C22 witness: a call with a critical market risk and a risk of a category
\* outside the six: market risk 95, the other five 50, risk_score 57.5
C22_Witness ==
    /\ Returned
    /\ StatedSeverities
    /\ \E i, j \in DOMAIN call.nlp_analysis.risk_factors :
          /\ call.nlp_analysis.risk_factors[i] = [category |-> "market", severity |-> "critical"]
          /\ call.nlp_analysis.risk_factors[j].category = "General"
    /\ call.result.reasoning.risk_assessment.category_risks[1] = Float(95)
    /\ call.result.risk_score = <<115, 2>>


\* the dollar value of a metric in millions: its amount scaled by its unit
\* (k thousand, m million, b billion, no unit: dollars)
StatedScale(unit) ==
    CASE unit = "k" -> <<1, 1000>>
      [] unit = "m" -> Float(1)
      [] unit = "b" -> Float(1000)
      [] OTHER -> <<1, 1000000>>

InMillions(metric) == Mul(Float(metric.amount), StatedScale(metric.unit))

\* the amounts of a list of metrics are numbers
Numeric(metrics) == \A i \in DOMAIN metrics : metrics[i].amount >= 0

\* a scored call whose only financial signals are revenue metrics
RevenueOnly ==
    /\ Returned
    /\ Numeric(call.nlp_analysis.financial_metrics.revenue_metrics)
    /\ call.nlp_analysis.financial_metrics.funding_metrics = <<>>
    /\ call.nlp_analysis.financial_metrics.valuation_metrics = <<>>
    /\ call.nlp_analysis.business_insights.revenue_model = "None"
    /\ call.document_content.document_type # "financial_model"

\* C23: the financial score has the +10 "revenue > $1M" bonus exactly when the
\* dollar value of some revenue metric (its amount scaled by its unit) exceeds
\* 1,000,000: a metric of 2 m earns it as a metric of 2000000 without unit does
C23_RevenueBonusByDollarValue ==
    RevenueOnly =>
        LET revenue_metrics == call.nlp_analysis.financial_metrics.revenue_metrics
            above == \E i \in DOMAIN revenue_metrics :
                        ~Leq(InMillions(revenue_metrics[i]), Float(1))
        IN  call.values.raw.financial =
                Float(50 + Bonus(revenue_metrics # <<>>, 15) + Bonus(above, 10))


\* a scored call whose only financial signals are funding metrics
FundingOnly ==
    /\ Returned
    /\ Numeric(call.nlp_analysis.financial_metrics.funding_metrics)
    /\ call.nlp_analysis.financial_metrics.revenue_metrics = <<>>
    /\ call.nlp_analysis.financial_metrics.valuation_metrics = <<>>
    /\ call.nlp_analysis.business_insights.revenue_model = "None"
    /\ call.document_content.document_type # "financial_model"

\* some metric of the list is worth at least the given number of millions
AnyAtLeast(metrics, millions) ==
    \E i \in DOMAIN metrics : Leq(Float(millions), InMillions(metrics[i]))

\* C24: for every list of funding metrics the funding-amount bonus is +15 when
\* some metric is worth at least $5M, otherwise +10 when some metric is worth
\* at least $1M, otherwise 0, in whatever order the metrics are listed
C24_FundingBonusOrderIndependent ==
    FundingOnly =>
        LET funding_metrics == call.nlp_analysis.financial_metrics.funding_metrics
            amount_bonus == IF AnyAtLeast(funding_metrics, 5) THEN 15
                            ELSE IF AnyAtLeast(funding_metrics, 1) THEN 10
                            ELSE 0
        IN  call.values.raw.financial =
                Float(50 + Bonus(funding_metrics # <<>>, 10) + amount_bonus)


\* a scored analysis of a text that the analysis classifies as a financial
\* model and in which no revenue, funding or valuation figure and no revenue
\* model is found
FinancialModelOnly ==
    /\ Returned
    /\ call.nlp_analysis.document_classification.document_type = "financial_model"
    /\ \A k \in {"revenue_metrics", "funding_metrics", "valuation_metrics"} :
          call.nlp_analysis.financial_metrics[k] = <<>>
    /\ call.nlp_analysis.business_insights.revenue_model = "None"

\* C25: when the analysis of the pipeline classifies the document as a
\* financial model, the financial score of the pipeline includes the +10
\* financial-model-document bonus: 50 + 10 when there is no other signal
C25_FinancialModelBonusInPipeline ==
    FinancialModelOnly => call.values.raw.financial = Float(50 + 10)


\* the dimensions whose reported score is at most 40, the risk categories
\* whose score is at least 70, and the first three risk factors of severity
\* high or critical, as entries in that order
StatedConcerns ==
    LET reported == [financial |-> call.result.financial_score,
                     market |-> call.result.market_score,
                     team |-> call.result.team_score,
                     product |-> call.result.product_score]
        assessment == call.result.reasoning.risk_assessment
        Weak(dimension) == Leq(reported[dimension], Float(40))
        weak == SelectSeq(<<"financial", "market", "team", "product">>, Weak)
        categories == {i \in 1..6 : Leq(Float(70), assessment.category_risks[i])}
        Risky(category) == \E i \in categories : risk_categories[i] = category
        risky == SelectSeq(risk_categories, Risky)
        Severe(risk) == risk.severity \in {"high", "critical"}
        severe == SelectSeq(assessment.risk_factors, Severe)
        first == IF Len(severe) <= 3 THEN severe ELSE SubSeq(severe, 1, 3)
    IN  [i \in DOMAIN weak |-> [kind |-> "weak", name |-> weak[i]]]
        \o [i \in DOMAIN risky |-> [kind |-> "high risk", name |-> risky[i]]]
        \o [i \in DOMAIN first |-> [kind |-> "risk", name |-> first[i].category]]

\* C26: every dimension whose reported, risk-adjusted score is at most 40 is a
\* concern of key_concerns, followed by every risk category of score 70 or more
\* and then by up to 3 high or critical risk factors, the list cut to its
\* first 5 entries; key_strengths and key_concerns hold at most 5 entries
C26_ConcernsOfReportedScores ==
    Returned =>
        /\ call.result.reasoning.key_concerns =
              (IF Len(StatedConcerns) <= 5 THEN StatedConcerns
               ELSE SubSeq(StatedConcerns, 1, 5))
        /\ Len(call.result.reasoning.key_concerns) <= 5
        /\ Len(call.result.reasoning.key_strengths) <= 5


\* C27: the technology-keyword scan does not depend on the named-entity pass:
\* the technologies list of the analysis of a text has one entry for every
\* technology keyword the text contains, whether the spaCy model is loaded or
\* not and whether the pass found a named entity or not
C27_TechnologyScanIndependent ==
    (Analyzed /\ ~call.text.blank) =>
        Len(call.nlp_analysis.entities.technologies) = call.text.technologies


\* the matches of a list whose numeric part float() parses
Parsable(matches) ==
    LET Parses(match) == match.amount # Unparsable IN SelectSeq(matches, Parses)

\* an analysed text with a revenue match that does not parse, and whose funding
\* and valuation matches all parse
UnparsableRevenue ==
    /\ Analyzed
    /\ ~call.text.blank
    /\ \E i \in DOMAIN call.text.revenue : call.text.revenue[i].amount = Unparsable
    /\ Parsable(call.text.funding) = call.text.funding
    /\ Parsable(call.text.valuation) = call.text.valuation

\* C28: the metric families are extracted independently: a revenue match whose
\* numeric part is no number takes away none of the funding and valuation
\* metrics of the text, and the revenue matches after it are recorded
C28_MetricFamiliesIndependent ==
    UnparsableRevenue =>
        LET financial_metrics == call.nlp_analysis.financial_metrics
            Amounts(metrics) == [i \in DOMAIN metrics |-> metrics[i].amount]
        IN  /\ Amounts(financial_metrics.funding_metrics) = Amounts(call.text.funding)
            /\ Amounts(financial_metrics.valuation_metrics) = Amounts(call.text.valuation)
            /\ Amounts(financial_metrics.revenue_metrics) =
                  Amounts(Parsable(call.text.revenue))


\* the four result fields of a document record
ResultFields == {"extracted_content", "structured_data", "entities", "financial_data"}

\* C29: in every reachable state of a document record, also when a reprocess
\* request overlaps a run still in flight, a completed document has no
\* processing_error and a document in processing has none of the result fields
\* extracted_content, structured_data, entities, financial_data set
C29_StatusAgreesWithFields ==
    uploaded =>
        /\ doc.processing_status = "completed" => doc.processing_error = NoError
        /\ doc.processing_status = "processing" => \A c \in ResultFields : doc[c] = None


\* C30: for every analysis the miner produces (it records every risk factor
\* with severity medium), the six category risk scores and risk_score are
\* exactly 50 and the risk adjustment is exactly 0.85, whatever the number and
\* the categories of the risk factors found; so every dimension score the
\* pipeline reports is at most 85
C30_MinerRiskIsNeutral ==
    Returned =>
        /\ \A i \in DOMAIN call.nlp_analysis.risk_factors :
              call.nlp_analysis.risk_factors[i].severity = "medium"
        /\ call.result.reasoning.risk_assessment.category_risks = [i \in 1..6 |-> Float(50)]
        /\ call.result.reasoning.risk_assessment.overall_risk_score = Float(50)
        /\ call.result.risk_score = Float(50)
        /\ call.values.risk_adjustment = Frac(85, 100)
        /\ \A score \in {call.result.financial_score, call.result.market_score,
                         call.result.team_score, call.result.product_score} :
              Leq(score, Float(85))

\* C30 witness: a text with a market and a team risk keyword has been analysed
\* and scored: two medium risk factors, risk_score 50
C30_Witness ==
    /\ Returned
    /\ Len(call.nlp_analysis.risk_factors) = 2
    /\ call.nlp_analysis.risk_factors[1].category = "market"
    /\ call.nlp_analysis.risk_factors[2].category = "team"
    /\ Len(call.result.reasoning.risk_assessment.risk_factors) = 2
    /\ call.result.risk_score = Float(50)

====
